---- MODULE Spec2Model ----
(***************************************************************************)
(* Model of the EVE-NG / FTD / FMC provisioning run.                       *)
(*                                                                         *)
(*   processing_ftd.py  run_threads, threading_process, create_nodes,      *)
(*                      start_nodes, get_node_port, telnet_conn            *)
(*   main_ftd.py        main                                               *)
(*   processing_fmc.py  fmc_register                                       *)
(*                                                                         *)
(* One worker thread per device runs create -> start -> port -> console.   *)
(* The threads share the creation payload dict, five message queues and    *)
(* five progress bars.  Every HTTP call and every console operation is an  *)
(* interaction with the environment whose outcome is chosen with \E.       *)
(***************************************************************************)
EXTENDS Integers, Sequences, FiniteSets, TLC

\* nodes = [{'FTD Firewall': 2}]
NumDevices == 2
\* dev_num in range(value)
Devices == 0 .. (NumDevices - 1)
\* run_threads takes 16 positional parameters
RunThreadsArity == 16
\* main passes 15 arguments to run_threads (ftd_screen_shot is not passed)
MainArgc == 15
\* create_nodes: max_retries = 3
CreateMaxRetries == 3
\* start_nodes: max_retries = 10
StartMaxRetries == 10
\* how many times the run-state poll of one device may observe "stopped"
MaxStopped == 2
\* how many interface-wiring calls (of a node already created) may fail in a run
MaxWireFaults == 1

NoId == 0
OrigTop == "template"

\* fmc_register: poll_interval = 10
PollInterval == 10
\* fmc_register: max_wait = 600
MaxWait == 600
\* fmc_register: pool_interval_reg = 30
PoolIntervalReg == 30
\* fmc_register: if waited > 1800
WarnAfter == 1800
\* fmc_register: max_ha_wait = 1800
MaxHaWait == 1800
\* fmc_register: total_interfaces = 3
TotalInterfaces == 3
\* len(sec_zone_settings["sec_zones_payload"])
NumZones == 3
\* the polls of a loop, counted from its first one, at which the management
\* controller may answer something new; later it answers "nothing yet", until
\* the ceiling of the loop
MaxLate == 1
\* how far the counter of the health loop, which has no ceiling, is followed
MaxWaited == 1830
\* how many times a device may be observed red and NOT_DEPLOYED
MaxNotDeployed == 1

VARIABLES
    argc,      \* number of positional arguments passed to run_threads
    mpc,       \* program counter of the calling thread (main, run_threads, fmc_register)
    started,   \* threads started so far by "for th in threads: th.start()"
    joined,    \* threads joined so far by "for th in threads: th.join()"
    wk,        \* per worker thread: its program counter and locals (see WorkerInit)
    payload,   \* the one ftd_payload dict every thread receives
    lab,       \* the lab controller and the consoles: what they were asked to do
    wireFaults,\* interface-wiring calls that have failed so far
    queues,    \* the message queues the threads put to, by name
    progress,  \* the five tqdm bars of run_threads: n of each
    loc,       \* fmc_register: its locals (see LocInit)
    fmc,       \* the management controller: what it was asked to do
    fmcq,      \* the message queues fmc_register puts to, by name
    fmcbar,    \* the six tqdm bars of fmc_register: n of each
    printed    \* main: what the result section has printed: <<queue, its lines>>

vars == <<argc, mpc, started, joined, wk, payload, lab, wireFaults, queues, progress,
          loc, fmc, fmcq, fmcbar, printed>>

\* what fmc_register works on
fmcVars == <<loc, fmc, fmcq, fmcbar>>

\* what run_threads and its threads work on
labVars == <<argc, started, joined, wk, payload, lab, wireFaults, queues, progress>>

Bars == {"create", "start", "connect", "configure", "close"}

LabQueues == {"createnode_queue", "starnode_queue", "connectnode_queue",
              "configure_queue", "closeconnection_queue"}

\* a put that overwrites what the queue holds from the thread
PutLossy(qs, name, w, tag) == [qs EXCEPT ![name][w] = <<tag>>]

\* Queue.put(item) by thread w on the queue called name: append at the tail,
\* atomically.  A queue is kept as the subsequence each producer put into it:
\* the arrival order between two producers is left open.
Put(qs, name, w, tag) == [qs EXCEPT ![name][w] = Append(@, tag)]

\* an update that counts two
UpdateTwo(bar) == [progress EXCEPT ![bar] = @ + 2]

\* tqdm.update(1)
Update(bar) == [progress EXCEPT ![bar] = @ + 1]

\* str(uuid.uuid4()): a value no other call returns
Uuid4(w, att) == <<w, att>>

\* the id the lab controller gives the next node it creates on a request of
\* thread w: one no other node has
FreshNodeId(w) == CreateMaxRetries * w + Cardinality(lab[w].nodes) + 1

\* the outcomes of a call: the good ones and the failing ones
Outcomes(good, bad) == good \cup bad

\* the outcomes of an interface-wiring call
WireOutcomes == IF wireFaults < MaxWireFaults THEN Outcomes({"ok"}, {"exc"}) ELSE {"ok"}

\* a thread before th.start()
WorkerInit ==
    [pc           |-> "unstarted",
     attempt      |-> 0,       \* create_nodes: loop variable attempt
     sent         |-> <<>>,    \* create_nodes: the body of the request this attempt got its node by
     posts        |-> 0,       \* create_nodes: creation requests issued so far in this call
     sleeps       |-> 0,       \* create_nodes: time.sleep(5) calls so far in this call
     node_id      |-> NoId,    \* create_nodes: device_id parsed from the 201 response
     device_id    |-> NoId,    \* threading_process: device_id returned by create_nodes
     poll         |-> 0,       \* start_nodes: loop variable attempt of the status poll
     restarts     |-> 0,       \* start_nodes: start calls re-issued by the poll so far
     ret          |-> "none",  \* start_nodes: the value returned, until the caller drops it
     cs           |-> 0,       \* telnet_conn: console step being waited for
     typed        |-> <<>>,    \* telnet_conn: the states left so far in this session:
                               \* <<name, whether a capture taken in it matched>>
     exc          |-> "none"]  \* how an exception raised into threading_process ended

\* what the lab controller and the console of one device were asked to do
LabInit ==
    [nodes     |-> {},       \* ids of the nodes created for the device
     started   |-> {},       \* node ids of the start calls
     polled    |-> {},       \* node ids of the run-state polls
     running   |-> FALSE,    \* a run-state poll was answered with status 2
     portOf    |-> {},       \* node ids of the console-address lookups
     console   |-> "none",   \* console session: none, open, closed
     disconnects |-> 0,      \* client.disconnect() calls
     files     |-> FALSE,    \* the screen-capture files of the device exist
     removed   |-> FALSE]    \* os.remove of the screen-capture files was called

\* a local that has not been assigned yet; a local bound to v is <<v>>
Unbound == <<>>

FmcQueues == {"fmc_register_queue", "fmc_ha_queue", "fmc_sec_zones_queue",
              "fmc_interface_queue", "fmc_object_host_queue", "fmc_route_queue"}

FmcBars == {"fmc_register", "fmc_ha", "fmc_seczone", "fmc_interface",
            "fmc_host_obj", "fmc_route"}

\* fmc_payload["device_payload"]: one entry per device, entry i (counted from
\* 0) being the one of the device with dev_num i; a device is named by i
DevicePayload == [i \in 1 .. NumDevices |-> i - 1]

\* a device record of the management controller that is not of this run
OtherDevice == NumDevices

\* fmc_int_settings: the interfaces to configure, each with its zone_index
IntSettings == [i \in 1 .. TotalInterfaces |-> [zone_index |-> i - 1]]

\* the physical interfaces the management controller lists for a device: the
\* configured ones and one more
Interfaces == 1 .. (TotalInterfaces + 1)

\* the locals of fmc_register at its first statement
LocInit ==
    [token             |-> FALSE,    \* headers carries X-auth-access-token
     sub               |-> 0,        \* entries of device_payload submitted so far
     device_names      |-> <<>>,
     waited_rec        |-> 0,
     missing_devices   |-> {},
     devices           |-> <<>>,     \* the items of the last device list
     di                |-> 0,        \* position of "for dev in devices"
     health            |-> "",
     deploy            |-> "",
     ready_devices     |-> {},
     waited            |-> 0,
     devices_list      |-> <<>>,
     ha_id             |-> Unbound,
     wait_ha           |-> 0,
     primary_status    |-> "",
     secondary_status  |-> "",
     zones_id_list     |-> <<>>,
     zi                |-> 0,        \* zones submitted so far
     primary_status_id |-> Unbound,
     ii                |-> 0,        \* position of "for int_id in interfaces"
     gw_host_id        |-> Unbound,
     any_ipv4_id       |-> Unbound,
     phases            |-> {}]       \* the phases entered so far

\* the requests the management controller has received
FmcInit ==
    [submitted |-> <<>>,    \* the names of the device submissions, in order
     sub_replies |-> <<>>,  \* the replies to the device submissions, in order
     ha_posts  |-> <<>>,    \* the HA-pair creations: <<primary, secondary>>
     tokens    |-> <<>>,    \* the replies to the token requests
     policies  |-> <<>>,    \* the replies to the policy lookups
     zone_posts |-> <<>>,   \* the zone submissions: <<entry, reply, id returned>>
     zones     |-> <<>>,    \* the zones created, in order
     puts      |-> <<>>,    \* the interface PUTs: <<device, interface, zone id>>
     hosts     |-> 0,       \* host-object creations
     routes    |-> <<>>]    \* the route creations: <<device, gateway>>

Init ==
    /\ loc = LocInit
    /\ fmc = FmcInit
    /\ fmcq = [q \in FmcQueues |-> <<>>]
    /\ fmcbar = [b \in FmcBars |-> 0]
    /\ printed = <<>>
    /\ argc \in {MainArgc, RunThreadsArity}
    /\ mpc = "main"
    /\ started = 0
    /\ joined = 0
    /\ wk = [w \in Devices |-> WorkerInit]
    /\ payload = [uuid |-> <<>>, top |-> OrigTop]
    /\ lab = [w \in Devices |-> LabInit]
    /\ wireFaults = 0
    /\ queues = [q \in LabQueues |-> [w \in Devices |-> <<>>]]
    /\ progress = [b \in Bars |-> 0]

----------------------------------------------------------------------------
(* main and run_threads                                                    *)

\* main: the call run_threads(...).  A call with the wrong number of
\* arguments raises TypeError, which main's "except Exception" logs.
MainCallRunThreads ==
    /\ mpc = "main"
    /\ mpc' = IF argc = RunThreadsArity THEN "start_threads" ELSE "main_except"
    /\ UNCHANGED <<fmcVars, printed, wireFaults, argc, started, joined, wk, payload, lab, queues, progress>>

\* for th in threads: th.start()
StartThread ==
    /\ mpc = "start_threads"
    /\ started < NumDevices
    /\ wk' = [wk EXCEPT ![started].pc = "cr_set"]
    /\ started' = started + 1
    /\ mpc' = IF started + 1 = NumDevices THEN "join" ELSE mpc
    /\ UNCHANGED <<fmcVars, printed, wireFaults, argc, joined, payload, lab, queues, progress>>

\* a join that does not wait for the thread
JoinReadyNoWait(w) == TRUE

\* a join that never returns
JoinReadyNever(w) == FALSE

\* th.join() returns once the thread has terminated
JoinReady(w) == wk[w].pc = "done"

\* for th in threads: th.join()
JoinThread ==
    /\ mpc = "join"
    /\ joined < NumDevices
    /\ JoinReady(joined)
    /\ joined' = joined + 1
    /\ mpc' = IF joined + 1 = NumDevices THEN "close_bars" ELSE mpc
    /\ UNCHANGED <<fmcVars, printed, wireFaults, argc, started, wk, payload, lab, queues, progress>>

\* the progress bars are closed and the queues returned
RunThreadsReturn ==
    /\ mpc = "close_bars"
    /\ mpc' = "returned"
    /\ UNCHANGED <<fmcVars, printed, wireFaults, argc, started, joined, wk, payload, lab, queues, progress>>

----------------------------------------------------------------------------
(* threading_process and the functions it calls                            *)

\* the thread has terminated: its locals are gone
Terminated(r) ==
    [r EXCEPT !.pc = "done", !.attempt = 0, !.sent = <<>>, !.node_id = NoId, !.poll = 0,
              !.restarts = 0, !.ret = "none", !.cs = 0, !.typed = <<>>]

\* the classes of the exceptions the steps of a worker raise: a failed or
\* timed-out HTTP call, the ValueError of create_nodes, a missing key in a reply
ExceptionClasses == {"RequestException", "ValueError", "KeyError"}

\* a handler that matches the failures of the HTTP library only
WorkerCatchesRequestOnly(cls) == cls = "RequestException"

\* threading_process: "except Exception" matches every one of them
WorkerCatches(cls) == cls \in ExceptionClasses

\* threading_process: except Exception as e: closeconnection_queue.put(...)
WorkerExcept(qs, w) == Put(qs, "closeconnection_queue", w, "worker_error")

\* an exception of class cls leaves a function called by threading_process,
\* the queues being qs: the handler reports it and the thread ends; an
\* exception no handler matches ends the thread as well
RaiseFrom(w, r, cls, qs) ==
    IF WorkerCatches(cls)
    THEN /\ wk' = [wk EXCEPT ![w] = [Terminated(r) EXCEPT !.exc = "caught"]]
         /\ queues' = WorkerExcept(qs, w)
    ELSE /\ wk' = [wk EXCEPT ![w] = [Terminated(r) EXCEPT !.exc = "escaped"]]
         /\ queues' = qs

\* the same, the locals of the thread being as they are
Raise(w, cls, qs) == RaiseFrom(w, wk[w], cls, qs)

\* create_nodes: device_payload['uuid'] = ...; if dev_num == 1: device_payload['top'] = "30"
CreateSetPayload(w) ==
    /\ wk[w].pc = "cr_set"
    /\ payload' = [uuid |-> Uuid4(w, wk[w].attempt),
                   top  |-> IF w = 1 THEN "30" ELSE payload.top]
    /\ wk' = [wk EXCEPT ![w].pc = "cr_post"]
    /\ UNCHANGED <<fmcVars, printed, wireFaults, argc, mpc, started, joined, lab, queues, progress>>

\* a handler that gives up after the second attempt
RetryAllowedOnce(attempt) == attempt < 1

\* if attempt < max_retries - 1
RetryAllowed(attempt) == attempt < CreateMaxRetries - 1

\* create_nodes: except Exception: retry while attempts remain (after time.sleep(5)),
\* else report on createnode_queue and raise into threading_process; posted
\* is 1 when the failing statement is the creation request itself
CreateAttemptFailed(w, cls, posted) ==
    LET r == [wk[w] EXCEPT !.posts = @ + posted]
    IN IF RetryAllowed(r.attempt)
       THEN /\ wk' = [wk EXCEPT ![w] = [r EXCEPT !.attempt = @ + 1, !.sleeps = @ + 1,
                                                 !.sent = <<>>, !.pc = "cr_set"]]
            /\ UNCHANGED queues
       ELSE RaiseFrom(w, r, cls, Put(queues, "createnode_queue", w, "create_failed"))

\* json=device_payload: the body is the payload dict as it is when requests.post
\* serialises it
Body == <<payload.uuid, payload.top>>

\* create_nodes is the only reader of device_payload
InCreate(r) == r.pc \in {"unstarted", "cr_set", "cr_post", "cr_wire_mgmt", "cr_wire_ha"}

\* the dict after a step of create_nodes: when the step was the last one any
\* thread makes in create_nodes, the uuid left in the dict is read by nobody
\* and is not carried further
PayloadLeft == IF \A v \in Devices : ~InCreate(wk'[v])
               THEN [payload EXCEPT !.uuid = <<>>]
               ELSE payload

\* create_nodes: requests.post(eve_node_creation_url, json=device_payload, ...)
CreatePost(w) ==
    /\ wk[w].pc = "cr_post"
    /\ \E out \in Outcomes({"created"}, {"exc", "rejected"}) :
        \/ /\ out = "exc"
           /\ CreateAttemptFailed(w, "RequestException", 1)
           /\ UNCHANGED lab
        \/ /\ out = "rejected"
           /\ CreateAttemptFailed(w, "ValueError", 1)
           /\ UNCHANGED lab
        \/ /\ out = "created"
           /\ lab' = [lab EXCEPT ![w].nodes = @ \cup {FreshNodeId(w)}]
           /\ wk' = [wk EXCEPT ![w].node_id = FreshNodeId(w), ![w].sent = Body,
                               ![w].posts = @ + 1, ![w].pc = "cr_wire_mgmt"]
           /\ queues' = Put(queues, "createnode_queue", w, "created")
    /\ UNCHANGED <<fmcVars, printed, wireFaults, argc, mpc, started, joined, progress>>
    /\ payload' = PayloadLeft

\* create_nodes: interface lookup, management network lookup, management wiring
CreateWireMgmt(w) ==
    /\ wk[w].pc = "cr_wire_mgmt"
    /\ \E out \in WireOutcomes :
        \/ /\ out = "exc"
           /\ CreateAttemptFailed(w, "KeyError", 0)
           /\ wireFaults' = wireFaults + 1
        \/ /\ out = "ok"
           /\ wk' = [wk EXCEPT ![w].pc = "cr_wire_ha"]
           /\ queues' = Put(queues, "createnode_queue", w, "mgmt")
           /\ UNCHANGED wireFaults
    /\ UNCHANGED <<fmcVars, printed, argc, mpc, started, joined, lab, progress>>
    /\ payload' = PayloadLeft

\* create_nodes: HA wiring, then return device_id
CreateWireHA(w) ==
    /\ wk[w].pc = "cr_wire_ha"
    /\ \E out \in WireOutcomes :
        \/ /\ out = "exc"
           /\ CreateAttemptFailed(w, "KeyError", 0)
           /\ wireFaults' = wireFaults + 1
        \/ /\ out = "ok"
           /\ wk' = [wk EXCEPT ![w].pc = "cr_progress", ![w].device_id = wk[w].node_id,
                               ![w].attempt = 0, ![w].sent = <<>>, ![w].node_id = NoId,
                               ![w].posts = 0, ![w].sleeps = 0]
           /\ queues' = Put(queues, "createnode_queue", w, "ha")
           /\ UNCHANGED wireFaults
    /\ UNCHANGED <<fmcVars, printed, argc, mpc, started, joined, lab, progress>>
    /\ payload' = PayloadLeft

\* threading_process: create_progress.update(1)
CreateProgress(w) ==
    /\ wk[w].pc = "cr_progress"
    /\ progress' = Update("create")
    /\ wk' = [wk EXCEPT ![w].pc = "st_begin"]
    /\ UNCHANGED <<fmcVars, printed, wireFaults, argc, mpc, started, joined, payload, lab, queues>>

\* start_nodes: starnode_queue.put("Starting ...")
StartBegin(w) ==
    /\ wk[w].pc = "st_begin"
    /\ queues' = Put(queues, "starnode_queue", w, "starting")
    /\ wk' = [wk EXCEPT ![w].pc = "st_call"]
    /\ UNCHANGED <<fmcVars, printed, wireFaults, argc, mpc, started, joined, payload, lab, progress>>

\* start_nodes: the start call; a rejected call is reported and start_nodes
\* returns False; an exception leaves start_nodes
StartCall(w) ==
    /\ wk[w].pc = "st_call"
    /\ \E out \in Outcomes({"ok"}, {"exc", "rejected"}) :
        \/ /\ out = "exc"
           /\ Raise(w, "RequestException", queues)
           /\ UNCHANGED lab
        \/ /\ out = "rejected"
           /\ lab' = [lab EXCEPT ![w].started = @ \cup {wk[w].device_id}]
           /\ wk' = [wk EXCEPT ![w].pc = "st_progress", ![w].ret = "false"]
           /\ queues' = Put(queues, "starnode_queue", w, "start_rejected")
        \/ /\ out = "ok"
           /\ lab' = [lab EXCEPT ![w].started = @ \cup {wk[w].device_id}]
           /\ wk' = [wk EXCEPT ![w].pc = "st_poll", ![w].poll = 0]
           /\ queues' = Put(queues, "starnode_queue", w, "started")
    /\ UNCHANGED <<fmcVars, printed, wireFaults, argc, mpc, started, joined, payload, progress>>

\* a poll loop that makes one iteration more
PollBudgetLeftMore(poll) == poll <= StartMaxRetries

\* for attempt in range(max_retries)
PollBudgetLeft(poll) == poll < StartMaxRetries

\* start_nodes: one iteration of "for attempt in range(max_retries)".
\*   running   status 2: return True
\*   stopped   status 0: the start call is issued again (its result is only logged)
\*   waiting   any other status, a status code other than 200, an unparsable body
\*   exc       the status request itself raises (it is outside the try)
StartPoll(w) ==
    /\ wk[w].pc = "st_poll"
    /\ PollBudgetLeft(wk[w].poll)
    /\ \E out \in Outcomes({"running", "waiting"} \cup
                           (IF wk[w].restarts < MaxStopped THEN {"stopped"} ELSE {}),
                           {"exc"}) :
        \/ /\ out = "exc"
           /\ Raise(w, "RequestException", queues)
           /\ UNCHANGED lab
        \/ /\ out = "running"
           /\ lab' = [lab EXCEPT ![w].polled = @ \cup {wk[w].device_id},
                                 ![w].running = TRUE]
           /\ wk' = [wk EXCEPT ![w].pc = "st_progress", ![w].poll = 0, ![w].restarts = 0,
                               ![w].ret = "true"]
           /\ UNCHANGED queues
        \/ /\ out = "stopped"
           /\ lab' = [lab EXCEPT ![w].polled = @ \cup {wk[w].device_id},
                                 ![w].started = @ \cup {wk[w].device_id}]
           /\ wk' = [wk EXCEPT ![w].poll = @ + 1, ![w].restarts = @ + 1]
           /\ UNCHANGED queues
        \/ /\ out = "waiting"
           /\ lab' = [lab EXCEPT ![w].polled = @ \cup {wk[w].device_id}]
           /\ wk' = [wk EXCEPT ![w].poll = @ + 1]
           /\ UNCHANGED queues
    /\ UNCHANGED <<fmcVars, printed, wireFaults, argc, mpc, started, joined, payload, progress>>

\* start_nodes: the poll loop ran out: report and return False
StartPollExhausted(w) ==
    /\ wk[w].pc = "st_poll"
    /\ ~PollBudgetLeft(wk[w].poll)
    /\ queues' = Put(queues, "starnode_queue", w, "start_timeout")
    /\ wk' = [wk EXCEPT ![w].pc = "st_progress", ![w].poll = 0, ![w].restarts = 0,
                        ![w].ret = "false"]
    /\ UNCHANGED <<fmcVars, printed, wireFaults, argc, mpc, started, joined, payload, lab, progress>>

\* threading_process: start_nodes(...) has returned (its value is dropped);
\* start_progress.update(1)
StartProgress(w) ==
    /\ wk[w].pc = "st_progress"
    /\ progress' = Update("start")
    /\ wk' = [wk EXCEPT ![w].pc = "port", ![w].ret = "none"]
    /\ UNCHANGED <<fmcVars, printed, wireFaults, argc, mpc, started, joined, payload, lab, queues>>

\* get_node_port: the console-address lookup
GetNodePort(w) ==
    /\ wk[w].pc = "port"
    /\ \E out \in Outcomes({"ok"}, {"exc"}) :
        \/ /\ out = "exc"
           /\ Raise(w, "RequestException", queues)
           /\ UNCHANGED lab
        \/ /\ out = "ok"
           /\ lab' = [lab EXCEPT ![w].portOf = @ \cup {wk[w].device_id}]
           /\ wk' = [wk EXCEPT ![w].pc = "conn_progress"]
           /\ UNCHANGED queues
    /\ UNCHANGED <<fmcVars, printed, wireFaults, argc, mpc, started, joined, payload, progress>>

\* threading_process: connect_progress.update(1)
ConnectProgress(w) ==
    /\ wk[w].pc = "conn_progress"
    /\ progress' = Update("connect")
    /\ wk' = [wk EXCEPT ![w].pc = "tn_connect"]
    /\ UNCHANGED <<fmcVars, printed, wireFaults, argc, mpc, started, joined, payload, lab, queues>>

----------------------------------------------------------------------------
(* telnet_conn: the console sequencer                                      *)

\* The steps between the connection and the teardown, in program order.
\*   prompt  "while True": capture the screen until the text is on it, then answer
\*   put     a queue message
\*   blind   keys sent and files read without a capture
\* sends is what is typed when the step is left ("" for nothing)
ConsoleSteps ==
    << [name |-> "waiting",          kind |-> "put",    sends |-> ""],
       [name |-> "login",            kind |-> "prompt", sends |-> "admin"],
       [name |-> "password",         kind |-> "prompt", sends |-> "Admin123"],
       [name |-> "eula",             kind |-> "prompt", sends |-> "enter"],
       [name |-> "eula_agree",       kind |-> "prompt", sends |-> "YES"],
       [name |-> "applying",         kind |-> "put",    sends |-> ""],
       [name |-> "new_password",     kind |-> "prompt", sends |-> "new_password twice"],
       [name |-> "password_changed", kind |-> "prompt", sends |-> ""],
       [name |-> "ipv4",             kind |-> "prompt", sends |-> "y"],
       [name |-> "ipv6",             kind |-> "blind",  sends |-> "n"],
       [name |-> "commands",         kind |-> "blind",  sends |-> "commands"],
       [name |-> "manage_locally",   kind |-> "prompt", sends |-> "no"],
       [name |-> "firewall_mode",    kind |-> "prompt", sends |-> "routed"],
       [name |-> "command_prompt",   kind |-> "prompt", sends |-> "configure manager add"] >>

\* a sequencer that leaves out every other step
AfterStepSkips(r, k) ==
    IF k + 1 < Len(ConsoleSteps) THEN [r EXCEPT !.cs = k + 2]
    ELSE [r EXCEPT !.pc = "tn_teardown", !.cs = 0]

\* where the sequencer goes after step k
AfterStep(r, k) ==
    IF k < Len(ConsoleSteps) THEN [r EXCEPT !.cs = k + 1]
    ELSE [r EXCEPT !.pc = "tn_teardown", !.cs = 0]

\* the session's record once step k is left
Typed(r, k, captured) ==
    [r EXCEPT !.typed = Append(@, <<ConsoleSteps[k].name, captured>>)]

\* telnet_conn: the outer "except Exception": report on configure_queue; the
\* "finally" closes tn, which is always None; telnet_conn returns
TelnetExcept(w) ==
    /\ wk' = [wk EXCEPT ![w].pc = "cfg_progress", ![w].cs = 0, ![w].typed = <<>>]
    /\ queues' = Put(queues, "configure_queue", w, "config_error")

\* telnet_conn: client = api.connect(...)
TelnetConnect(w) ==
    /\ wk[w].pc = "tn_connect"
    /\ \E out \in Outcomes({"ok"}, {"exc"}) :
        \/ /\ out = "exc"
           /\ TelnetExcept(w)
           /\ UNCHANGED lab
        \/ /\ out = "ok"
           /\ lab' = [lab EXCEPT ![w].console = "open"]
           /\ wk' = [wk EXCEPT ![w].pc = "console", ![w].cs = 1]
           /\ queues' = Put(queues, "connectnode_queue", w, "connected")
    /\ UNCHANGED <<fmcVars, printed, wireFaults, argc, mpc, started, joined, payload, progress>>

\* telnet_conn: one iteration of the "while True" of a prompt step: the capture
\* writes the screen files; when the text is on the screen the answer is typed
\* and the step is left, else the capture is repeated after time.sleep(5)
ConsolePrompt(w) ==
    /\ wk[w].pc = "console"
    /\ ConsoleSteps[wk[w].cs].kind = "prompt"
    /\ lab' = [lab EXCEPT ![w].files = TRUE]
    /\ \E out \in Outcomes({"match", "no_match"}, {"exc"}) :
        \/ /\ out = "exc"
           /\ TelnetExcept(w)
        \/ /\ out = "no_match"
           /\ UNCHANGED <<wk, queues>>
        \/ /\ out = "match"
           /\ wk' = [wk EXCEPT ![w] = AfterStep(Typed(@, wk[w].cs, TRUE), wk[w].cs)]
           /\ UNCHANGED queues
    /\ UNCHANGED <<fmcVars, printed, wireFaults, argc, mpc, started, joined, payload, progress>>

\* telnet_conn: connectnode_queue.put("Waiting ...") / configure_queue.put("Applying ...")
ConsolePut(w) ==
    /\ wk[w].pc = "console"
    /\ ConsoleSteps[wk[w].cs].kind = "put"
    /\ queues' = Put(queues,
                     IF ConsoleSteps[wk[w].cs].name = "waiting"
                     THEN "connectnode_queue" ELSE "configure_queue",
                     w, ConsoleSteps[wk[w].cs].name)
    /\ wk' = [wk EXCEPT ![w] = AfterStep(@, wk[w].cs)]
    /\ UNCHANGED <<fmcVars, printed, wireFaults, argc, mpc, started, joined, payload, lab, progress>>

\* telnet_conn: "n" and enter for IPv6; pd.read_excel and the configuration
\* commands: both are typed after time.sleep alone
ConsoleBlind(w) ==
    /\ wk[w].pc = "console"
    /\ ConsoleSteps[wk[w].cs].kind = "blind"
    /\ \E out \in Outcomes({"ok"}, {"exc"}) :
        \/ /\ out = "exc"
           /\ TelnetExcept(w)
        \/ /\ out = "ok"
           /\ wk' = [wk EXCEPT ![w] = AfterStep(Typed(@, wk[w].cs, FALSE), wk[w].cs)]
           /\ UNCHANGED queues
    /\ UNCHANGED <<fmcVars, printed, wireFaults, argc, mpc, started, joined, payload, lab, progress>>

\* telnet_conn: the last step: client.disconnect() in its own try (a failure is
\* reported on configure_queue); its finally reports on closeconnection_queue and
\* removes the two screen files (a failure there reaches the outer except)
TelnetTeardown(w) ==
    /\ wk[w].pc = "tn_teardown"
    /\ \E disc \in Outcomes({"ok"}, {"exc"}), rm \in Outcomes({"ok"}, {"exc"}) :
        LET q1 == IF disc = "exc"
                  THEN Put(queues, "configure_queue", w, "disconnect_error") ELSE queues
            q2 == Put(q1, "closeconnection_queue", w, "closed")
            q3 == IF rm = "exc" THEN Put(q2, "configure_queue", w, "config_error") ELSE q2
        IN /\ queues' = q3
           /\ lab' = [lab EXCEPT ![w].console = IF disc = "ok" THEN "closed" ELSE "open",
                                 ![w].disconnects = @ + 1,
                                 ![w].removed = TRUE,
                                 ![w].files = IF rm = "ok" THEN FALSE ELSE @]
    /\ wk' = [wk EXCEPT ![w].pc = "cfg_progress", ![w].typed = <<>>]
    /\ UNCHANGED <<fmcVars, printed, wireFaults, argc, mpc, started, joined, payload, progress>>

\* threading_process: telnet_conn(...) has returned; configure_progress.update(1)
ConfigureProgress(w) ==
    /\ wk[w].pc = "cfg_progress"
    /\ progress' = Update("configure")
    /\ wk' = [wk EXCEPT ![w].pc = "close_progress"]
    /\ UNCHANGED <<fmcVars, printed, wireFaults, argc, mpc, started, joined, payload, lab, queues>>

\* threading_process: close_progress.update(1); the thread ends
CloseProgress(w) ==
    /\ wk[w].pc = "close_progress"
    /\ progress' = Update("close")
    /\ wk' = [wk EXCEPT ![w] = Terminated(@)]
    /\ UNCHANGED <<fmcVars, printed, wireFaults, argc, mpc, started, joined, payload, lab, queues>>

\* main: fmc_register_queue = Queue(); fmc_register(...)
MainCallFmcRegister ==
    /\ mpc = "returned"
    /\ mpc' = "fmc_token"
    /\ UNCHANGED <<fmcVars, printed, wireFaults, argc, started, joined, wk, payload, lab, queues, progress>>

Worker(w) ==
    \/ CreateSetPayload(w)
    \/ CreatePost(w)
    \/ CreateWireMgmt(w)
    \/ CreateWireHA(w)
    \/ CreateProgress(w)
    \/ StartBegin(w)
    \/ StartCall(w)
    \/ StartPoll(w)
    \/ StartPollExhausted(w)
    \/ StartProgress(w)
    \/ GetNodePort(w)
    \/ ConnectProgress(w)
    \/ TelnetConnect(w)
    \/ ConsolePrompt(w)
    \/ ConsolePut(w)
    \/ ConsoleBlind(w)
    \/ TelnetTeardown(w)
    \/ ConfigureProgress(w)
    \/ CloseProgress(w)

Next ==
    \/ MainCallRunThreads
    \/ StartThread
    \/ JoinThread
    \/ RunThreadsReturn
    \/ MainCallFmcRegister
    \/ \E w \in Devices : Worker(w)

Spec == Init /\ [][Next]_vars

\* The lab phase when the process keeps running: as long as some thread has a
\* next statement, a statement is executed.  Every HTTP call comes back
\* (answered or raising) and a console prompt that is waited for comes in the
\* end: a capture that does not show it leaves the thread where it is, so the
\* step a waiting thread takes at last is the capture that matches or the one
\* that fails.
SpecTermination == Init /\ [][Next]_vars /\ WF_vars(Next)

----------------------------------------------------------------------------
(* fmc_register: registration                                              *)

\* Queue.put(msg) by the calling thread
FPut(q, name, msg) == [q EXCEPT ![name] = Append(@, msg)]

\* tqdm.update(1) on a bar of fmc_register
FUpdate(b, bar) == [b EXCEPT ![bar] = @ + 1]

\* the elements of a set of numbers in ascending order
RECURSIVE Ascending(_)
Ascending(S) ==
    IF S = {} THEN <<>>
    ELSE LET m == CHOOSE x \in S : \A y \in S : x <= y
         IN <<m>> \o Ascending(S \ {m})

\* the elements of a sequence
Range(q) == {q[i] : i \in 1 .. Len(q)}

\* the outcomes of a call followed by raise_for_status(): without the access
\* token in the headers the management controller refuses every call
Checked(good) == IF loc.token THEN Outcomes(good, {"exc"}) ELSE {"exc"}

\* whether a poll made when the counter of its loop is c may be answered with
\* something new: one of the first polls, or one at the ceiling of the loop
Early(c, step, ceiling) == c <= MaxLate * step \/ c >= ceiling

\* fmc_register: every handler is "except requests.exceptions.RequestException"
FmcCatches(cls) == cls = "RequestException"

\* an exception no handler of fmc_register matches reaches main, whose
\* "except Exception" logs it
Escape ==
    /\ mpc' = "main_except"
    /\ UNCHANGED <<fmc, fmcq, fmcbar>>

\* The locals of a block that no later statement reads are left out of the
\* state once the block is left: they are put back to their first values.
LeaveVisibility(l) == [l EXCEPT !.waited_rec = 0]

LeaveRegistration(l) ==
    [l EXCEPT !.sub = 0, !.waited_rec = 0, !.missing_devices = {}, !.devices = <<>>,
              !.di = 0, !.health = "", !.deploy = "", !.waited = 0]

LeaveHa(l) ==
    [l EXCEPT !.devices_list = <<>>, !.wait_ha = 0,
              !.primary_status = "", !.secondary_status = ""]

LeaveZones(l) == [l EXCEPT !.zi = 0]

LeaveInterfaces(l) == [l EXCEPT !.ii = 0]

\* fmc_register: the handler of the registration block; the HA block follows
RegExcept(l) ==
    /\ fmcq' = FPut(fmcq, "fmc_register_queue", <<"error">>)
    /\ mpc' = "ha_list"
    /\ loc' = LeaveRegistration(l)
    /\ UNCHANGED <<fmc, fmcbar>>

\* fmc_register: "return" before the last statement
EarlyReturn == mpc' = "fmc_done"

\* the access token request: the reply carries the token, or has a good
\* status and no token ("no_token"), or a status raise_for_status() raises on
\* ("denied"), or there is no reply ("exc")
FmcToken ==
    /\ mpc = "fmc_token"
    /\ \E out \in Outcomes({"token"}, {"no_token", "denied", "exc"}) :
        LET l1 == [loc EXCEPT !.phases = @ \cup {"registration"}]
            f1 == IF out = "exc" THEN fmc
                  ELSE [fmc EXCEPT !.tokens = Append(@, out)]
        IN \/ /\ out = "token"
              /\ loc' = [l1 EXCEPT !.token = TRUE]
              /\ fmc' = f1
              /\ mpc' = "fmc_policy"
              /\ UNCHANGED <<fmcq, fmcbar>>
           \/ /\ out = "no_token"
              /\ fmc' = f1
              /\ IF FmcCatches("Exception")
                 THEN /\ fmcq' = FPut(fmcq, "fmc_register_queue", <<"error">>)
                      /\ mpc' = "ha_list"
                      /\ loc' = LeaveRegistration(l1)
                      /\ UNCHANGED fmcbar
                 ELSE /\ loc' = l1
                      /\ mpc' = "main_except"
                      /\ UNCHANGED <<fmcq, fmcbar>>
           \/ /\ out \in {"denied", "exc"}
              /\ fmc' = f1
              /\ fmcq' = FPut(fmcq, "fmc_register_queue", <<"error">>)
              /\ mpc' = "ha_list"
              /\ loc' = LeaveRegistration(l1)
              /\ UNCHANGED fmcbar
    /\ UNCHANGED <<labVars, printed>>

\* the names of the access policies the management controller may list
PolicyNames == {"Initial_policy", "initial_policy"}

\* what the lookup may list: nothing, or one policy
PolicyReplies == {{}} \cup {{n} : n \in PolicyNames}

\* a policy test that takes any listed policy
PolicyFoundAny(items) == items # {}

\* for policy in policies: if policy["name"] == "Initial_policy"
PolicyFound(items) == "Initial_policy" \in items

\* the lookup of the access policy called Initial_policy; "if not policy_id:
\* return"
FmcPolicy ==
    /\ mpc = "fmc_policy"
    /\ \/ RegExcept(loc)
       \/ \E items \in PolicyReplies :
            /\ fmc' = [fmc EXCEPT !.policies = Append(@, items)]
            /\ IF PolicyFound(items) THEN mpc' = "fmc_submit" ELSE EarlyReturn
            /\ UNCHANGED <<loc, fmcq, fmcbar>>
    /\ UNCHANGED <<labVars, printed>>

\* a submission loop that a refused submission ends
AfterSubmitStops(last, out) == IF last \/ out = "refused" THEN "fmc_vis" ELSE "fmc_submit"

\* for device in fmc_payload["device_payload"]: the next entry whatever the
\* status code was, the visibility loop after the last entry
AfterSubmit(last, out) == IF last THEN "fmc_vis" ELSE "fmc_submit"

\* a name list that leaves out the devices whose submission was refused
DeviceNamesAccepted(entries) ==
    SelectSeq(entries, LAMBDA n : \A i \in 1 .. Len(fmc.sub_replies) :
                                      fmc.submitted[i] = n => fmc.sub_replies[i] = "accepted")

\* for name in fmc_payload["device_payload"]: device_names.append(name['name'])
DeviceNames(entries) == [i \in 1 .. Len(entries) |-> entries[i]]

\* for device in fmc_payload["device_payload"]: requests.post(fmc_devices, ...);
\* after the last one device_names is filled
FmcSubmit ==
    /\ mpc = "fmc_submit"
    /\ LET name == DevicePayload[loc.sub + 1]
           last == loc.sub + 1 = Len(DevicePayload)
       IN \E out \in Outcomes({"accepted"}, {"refused", "exc"}) :
           \/ /\ out = "exc"
              /\ RegExcept(loc)
           \/ /\ out # "exc"
              /\ fmc' = [fmc EXCEPT !.submitted = Append(@, name),
                                    !.sub_replies = Append(@, out)]
              /\ fmcq' = FPut(fmcq, "fmc_register_queue",
                              IF out = "accepted" THEN <<"registered", name>>
                              ELSE <<"submit_failed", name>>)
              /\ loc' = [loc EXCEPT !.sub = @ + 1,
                                    !.device_names = IF last THEN DeviceNames(DevicePayload)
                                                      ELSE @]
              /\ mpc' = AfterSubmit(last, out)
              /\ UNCHANGED fmcbar
    /\ UNCHANGED <<labVars, printed>>

\* a ceiling test that is true at the ceiling already
VisibilityCeilingAt(c) == c >= MaxWait

\* if waited_rec > max_wait
VisibilityCeiling(c) == c > MaxWait

\* one iteration of the loop that waits for the devices to appear
FmcVisibility ==
    /\ mpc = "fmc_vis"
    /\ \/ RegExcept(loc)
       \/ \E found \in (IF Early(loc.waited_rec, PollInterval, MaxWait)
                        THEN SUBSET Devices ELSE {{}}) :
            LET missing == Range(loc.device_names) \ found
                l1 == [loc EXCEPT
                            !.devices = Ascending(found),
                            !.missing_devices = missing,
                            !.waited_rec = IF missing # {} /\ loc.waited_rec <= MaxWait
                                           THEN @ + PollInterval ELSE @]
            IN /\ loc' = IF missing = {} THEN LeaveVisibility(l1) ELSE l1
               /\ IF missing = {}
                  THEN /\ mpc' = "fmc_health_list"
                       /\ UNCHANGED fmcq
                  ELSE IF VisibilityCeiling(loc.waited_rec)
                  THEN /\ fmcq' = FPut(fmcq, "fmc_register_queue",
                                       <<"not_appeared", missing>>)
                       /\ EarlyReturn
                  ELSE UNCHANGED <<mpc, fmcq>>
               /\ UNCHANGED <<fmc, fmcbar>>
    /\ UNCHANGED <<labVars, printed>>

\* health loop: the device list of one iteration
FmcHealthList ==
    /\ mpc = "fmc_health_list"
    /\ loc.waited <= MaxWaited
    /\ \/ RegExcept(loc)
       \/ \E found \in (IF Early(loc.waited, PoolIntervalReg, WarnAfter)
                        THEN SUBSET Devices ELSE {Devices}) :
            /\ loc' = [loc EXCEPT !.devices = Ascending(found), !.di = 1]
            /\ mpc' = IF found = {} THEN "fmc_health_check" ELSE "fmc_health_detail"
            /\ UNCHANGED <<fmc, fmcq, fmcbar>>
    /\ UNCHANGED <<labVars, printed>>

\* healthStatus and deploymentStatus as the management controller spells them
HealthRaw == {"GREEN", "yellow", "recovered", "red"}
DeployRaw == {"Deployed", "NOT_DEPLOYED"}

\* str.lower() and str.upper() on these values
Lower(h) == IF h = "GREEN" THEN "green" ELSE h
Upper(d) == IF d = "Deployed" THEN "DEPLOYED" ELSE d

\* healthy_states = ["green", "yellow", "recovered"]
healthy_states == {"green", "yellow", "recovered"}

\* a ready test that does not look at the deployment status
IsReadyHealthOnly(health, deploy) == health \in healthy_states

\* if health in healthy_states and deploy == "DEPLOYED"
IsReady(health, deploy) == health \in healthy_states /\ deploy = "DEPLOYED"

\* the "not deployed" messages put so far
NotDeployedPuts ==
    Cardinality({i \in 1 .. Len(fmcq.fmc_register_queue) :
                    fmcq.fmc_register_queue[i][1] = "not_deployed"})

\* what the detail of a device may say at this poll
DetailAnswers ==
    IF Early(loc.waited, PoolIntervalReg, WarnAfter)
    THEN {a \in HealthRaw \X DeployRaw :
            (a[1] = "red" /\ a[2] = "NOT_DEPLOYED") => NotDeployedPuts < MaxNotDeployed}
    ELSE {<<"yellow", "NOT_DEPLOYED">>}

\* a ready set that loses a device observed not ready
ReadyAfterDrops(ready, dev, add, isready) ==
    IF add THEN ready \cup {dev} ELSE IF isready THEN ready ELSE ready \ {dev}

\* ready_devices[dev["name"]] = dev is the only statement that changes the dict
ReadyAfter(ready, dev, add, isready) == IF add THEN ready \cup {dev} ELSE ready

\* health loop: the body of "for dev in devices" for one device
FmcHealthDetail ==
    /\ mpc = "fmc_health_detail"
    /\ \/ RegExcept(loc)
       \/ \E a \in DetailAnswers :
            LET dev    == loc.devices[loc.di]
                health == Lower(a[1])
                deploy == Upper(a[2])
                add    == IsReady(health, deploy) /\ dev \notin loc.ready_devices
                warn   == health = "red" /\ deploy = "NOT_DEPLOYED"
            IN /\ loc' = [loc EXCEPT
                            !.health = health,
                            !.deploy = deploy,
                            !.ready_devices = ReadyAfter(@, dev, add,
                                                         IsReady(health, deploy)),
                            !.di = @ + 1]
               /\ fmcbar' = IF add THEN FUpdate(fmcbar, "fmc_register") ELSE fmcbar
               /\ fmcq' = IF warn
                          THEN FPut(fmcq, "fmc_register_queue", <<"not_deployed", dev>>)
                          ELSE fmcq
               /\ mpc' = IF loc.di = Len(loc.devices) THEN "fmc_health_check" ELSE mpc
               /\ UNCHANGED fmc
    /\ UNCHANGED <<labVars, printed>>

\* a threshold that ends the health loop
AfterWarningAborts(waited) == IF waited > WarnAfter THEN "fmc_reg_end" ELSE "fmc_health_list"

\* if waited > 1800: logger.info("Warning: ..."): the next statements are the
\* sleep and the next iteration, whatever waited is
AfterWarning(waited) == "fmc_health_list"

\* health loop: the tests after "for dev in devices".  missing_devices is the
\* set the visibility loop computed last; passing 1800 s is only logged
FmcHealthCheck ==
    /\ mpc = "fmc_health_check"
    /\ IF loc.missing_devices # {}
       THEN /\ fmcq' = FPut(fmcq, "fmc_register_queue", <<"disappeared">>)
            /\ mpc' = "fmc_reg_end"
            /\ UNCHANGED loc
       ELSE IF Cardinality(loc.ready_devices) = Len(loc.device_names)
       THEN /\ mpc' = "fmc_reg_end"
            /\ UNCHANGED <<loc, fmcq>>
       ELSE /\ loc' = [loc EXCEPT !.waited = @ + PoolIntervalReg]
            /\ mpc' = AfterWarning(loc.waited)
            /\ UNCHANGED fmcq
    /\ UNCHANGED <<fmc, fmcbar, labVars, printed>>

\* if len(ready_devices) < len(device_names): return
FmcRegEnd ==
    /\ mpc = "fmc_reg_end"
    /\ IF Cardinality(loc.ready_devices) < Len(loc.device_names)
       THEN /\ EarlyReturn
            /\ UNCHANGED loc
       ELSE /\ mpc' = "ha_list"
            /\ loc' = LeaveRegistration(loc)
    /\ UNCHANGED <<fmc, fmcq, fmcbar, labVars, printed>>

----------------------------------------------------------------------------
(* fmc_register: HA pair, security zones, interfaces, default route        *)

\* the handler of the HA block; the zones block follows
HaExcept(l) ==
    /\ fmcq' = FPut(fmcq, "fmc_ha_queue", <<"error">>)
    /\ mpc' = "zones"
    /\ loc' = LeaveHa(l)
    /\ UNCHANGED <<fmc, fmcbar>>

\* the device list and, per device, its interfaces: devices_list gets the
\* devices that have GigabitEthernet0/5
HaList ==
    /\ mpc = "ha_list"
    /\ \E out \in Checked({"ok"}) :
        \/ /\ out = "exc"
           /\ HaExcept([loc EXCEPT !.phases = @ \cup {"ha"}])
        \/ /\ out = "ok"
           /\ \E lst \in SUBSET (Devices \cup {OtherDevice}) :
                loc' = [loc EXCEPT !.phases = @ \cup {"ha"},
                                   !.devices_list = Ascending(lst)]
           /\ mpc' = "ha_post"
           /\ UNCHANGED <<fmc, fmcq, fmcbar>>
    /\ UNCHANGED <<labVars, printed>>

\* ha_payload is filled from devices_list[0] and devices_list[1] and posted;
\* the reply is not looked at; ha_id = "", wait_ha = 0
HaPost ==
    /\ mpc = "ha_post"
    /\ IF Len(loc.devices_list) < 2
       THEN IF FmcCatches("IndexError")
            THEN HaExcept(loc)
            ELSE Escape /\ UNCHANGED loc
       ELSE \E out \in Outcomes({"sent"}, {"exc"}) :
            \/ /\ out = "exc"
               /\ HaExcept(loc)
            \/ /\ out = "sent"
               /\ fmc' = [fmc EXCEPT !.ha_posts =
                            Append(@, <<loc.devices_list[1], loc.devices_list[2]>>)]
               /\ loc' = [loc EXCEPT !.ha_id = <<"">>, !.wait_ha = 0]
               /\ mpc' = "ha_id_poll"
               /\ UNCHANGED <<fmcq, fmcbar>>
    /\ UNCHANGED <<labVars, printed>>

\* a loop that goes back to the creation call
HaIdRetryPosts == "ha_post"

\* "while not ha_id": the loop head is after the creation call
HaIdRetry == "ha_id_poll"

\* a pair found that starts the wait for its status anew
HaFoundResets(l) == [l EXCEPT !.ha_id = <<"ha">>, !.wait_ha = 0]

\* for ha in ha_pairs: if ha.get('name') == ha_payload['name']: ha_id =
\* ha.get('id'); break.  wait_ha is left as it is, and "while True" of the
\* status wait goes on with it
HaFound(l) == [l EXCEPT !.ha_id = <<"ha">>]

\* one iteration of "while not ha_id"
HaIdPoll ==
    /\ mpc = "ha_id_poll"
    /\ \E out \in Outcomes({"absent"} \cup
                           (IF Early(loc.wait_ha, PollInterval, MaxHaWait)
                            THEN {"listed"} ELSE {}),
                           {"exc"}) :
        \/ /\ out = "exc"
           /\ HaExcept(loc)
        \/ /\ out = "listed"
           /\ loc' = HaFound(loc)
           /\ mpc' = "ha_status_poll"
           /\ UNCHANGED <<fmc, fmcq, fmcbar>>
        \/ /\ out = "absent"
           /\ IF loc.wait_ha > MaxHaWait
              THEN /\ EarlyReturn
                   /\ UNCHANGED loc
              ELSE /\ loc' = [loc EXCEPT !.wait_ha = @ + PollInterval]
                   /\ mpc' = HaIdRetry
           /\ UNCHANGED <<fmc, fmcq, fmcbar>>
    /\ UNCHANGED <<labVars, printed>>

\* currentStatus of a unit as the management controller spells it
HaStatusRaw == {"Active", "Standby", "Failed", "Initializing"}

\* str.lower() on these values
HaLower(st) ==
    CASE st = "Active"       -> "active"
      [] st = "Standby"      -> "standby"
      [] st = "Failed"       -> "failed"
      [] st = "Initializing" -> "initializing"

\* what the pair may report at this poll: <<primary, secondary>>
HaStatusAnswers ==
    IF Early(loc.wait_ha, PollInterval, MaxHaWait)
    THEN HaStatusRaw \X HaStatusRaw
    ELSE {<<"Active", "Initializing">>}

\* the loop that waits for primary active, secondary standby: the status
\* request of one iteration
HaStatusPoll ==
    /\ mpc = "ha_status_poll"
    /\ \/ HaExcept(loc)
       \/ \E a \in HaStatusAnswers :
            /\ loc' = [loc EXCEPT !.primary_status = HaLower(a[1]),
                                  !.secondary_status = HaLower(a[2])]
            /\ mpc' = "ha_status_test"
            /\ UNCHANGED <<fmc, fmcq, fmcbar>>
    /\ UNCHANGED <<labVars, printed>>

\* a ceiling that ends the function, as the one of "while not ha_id" does
HaCeilingReturns == "fmc_done"

\* if wait_ha > max_ha_wait: logger.info(warning); break
HaCeilingExit == "zones"

\* the tests of the iteration: success, failure, ceiling, else sleep
HaStatusTest ==
    /\ mpc = "ha_status_test"
    /\ IF loc.primary_status = "active" /\ loc.secondary_status = "standby"
       THEN /\ fmcbar' = FUpdate(fmcbar, "fmc_ha")
            /\ fmcq' = FPut(fmcq, "fmc_ha_queue", <<"ha_added">>)
            /\ mpc' = "zones"
            /\ loc' = LeaveHa(loc)
       ELSE IF loc.primary_status = "failed" \/ loc.secondary_status = "failed"
       THEN /\ mpc' = "zones"
            /\ loc' = LeaveHa(loc)
            /\ UNCHANGED <<fmcq, fmcbar>>
       ELSE IF loc.wait_ha > MaxHaWait
       THEN /\ mpc' = HaCeilingExit
            /\ loc' = LeaveHa(loc)
            /\ UNCHANGED <<fmcq, fmcbar>>
       ELSE /\ mpc' = "ha_status_poll"
            /\ loc' = [loc EXCEPT !.wait_ha = @ + PollInterval,
                                  !.primary_status = "", !.secondary_status = ""]
            /\ UNCHANGED <<fmcq, fmcbar>>
    /\ UNCHANGED <<fmc, labVars, printed>>

\* the id the management controller gives the zone it creates for entry z
ZoneId(z) == 10 + z

\* zones.get('id') of a reply that carries no id
NoZoneId == 0

\* zones_id = zones.get('id') for the reply to the submission of entry z
ZoneReplyId(z, out) == IF out = "created" THEN ZoneId(z) ELSE NoZoneId

\* for zone in sec_zone_settings["sec_zones_payload"]: one iteration.  A reply
\* raise_for_status() accepts with a status other than 200 and 201 is only
\* logged; an exception leaves the loop for the handler of the block
ZonePost ==
    /\ mpc = "zones"
    /\ LET z == loc.zi + 1
       IN \E out \in Checked({"created", "other"}) :
           \/ /\ out = "exc"
              /\ fmc' = [fmc EXCEPT !.zone_posts = Append(@, <<z, out, NoZoneId>>)]
              /\ loc' = LeaveZones([loc EXCEPT !.phases = @ \cup {"zones"}])
              /\ fmcq' = FPut(fmcq, "fmc_sec_zones_queue", <<"error">>)
              /\ mpc' = "if_ha_check"
              /\ UNCHANGED fmcbar
           \/ /\ out # "exc"
              /\ fmc' = [fmc EXCEPT
                            !.zone_posts = Append(@, <<z, out, ZoneReplyId(z, out)>>),
                            !.zones = IF out = "created" THEN Append(@, z) ELSE @]
              /\ loc' = [loc EXCEPT !.phases = @ \cup {"zones"},
                                    !.zones_id_list = Append(@, ZoneReplyId(z, out)),
                                    !.zi = IF z = NumZones THEN 0 ELSE z]
              /\ fmcq' = IF out = "created"
                         THEN FPut(fmcq, "fmc_sec_zones_queue", <<"zone", z>>)
                         ELSE fmcq
              /\ fmcbar' = IF out = "created" THEN FUpdate(fmcbar, "fmc_seczone")
                           ELSE fmcbar
              /\ mpc' = IF z = NumZones THEN "if_ha_check" ELSE mpc
    /\ UNCHANGED <<labVars, printed>>

\* the handler of the interface block; the route block follows
IfExcept(l) ==
    /\ fmcq' = FPut(fmcq, "fmc_interface_queue", <<"error">>)
    /\ mpc' = "route_host"
    /\ loc' = LeaveInterfaces(l)
    /\ UNCHANGED <<fmc, fmcbar>>

\* a reading that takes the other unit of the pair
SecondaryOf(pair) == pair[2]

\* ha_json["metadata"]["primaryStatus"]["device"]["id"]: the unit the pair was
\* created with as primary
PrimaryOf(pair) == pair[1]

\* the HA pair is read by ha_id for its primary device
IfHaCheck ==
    /\ mpc = "if_ha_check"
    /\ IF loc.ha_id = Unbound
       THEN IF FmcCatches("UnboundLocalError")
            THEN IfExcept([loc EXCEPT !.phases = @ \cup {"interfaces"}])
            ELSE /\ loc' = [loc EXCEPT !.phases = @ \cup {"interfaces"}]
                 /\ Escape
       ELSE \E out \in Checked(IF loc.ha_id = <<"">> THEN {} ELSE {"ok"}) :
            \/ /\ out = "exc"
               /\ IfExcept([loc EXCEPT !.phases = @ \cup {"interfaces"}])
            \/ /\ out = "ok"
               /\ loc' = [loc EXCEPT !.phases = @ \cup {"interfaces"},
                             !.primary_status_id = <<PrimaryOf(fmc.ha_posts[Len(fmc.ha_posts)])>>]
               /\ mpc' = "if_list"
               /\ UNCHANGED <<fmc, fmcq, fmcbar>>
    /\ UNCHANGED <<labVars, printed>>

\* the physical interfaces of the primary device
IfList ==
    /\ mpc = "if_list"
    /\ \E out \in Checked({"ok"}) :
        \/ /\ out = "exc"
           /\ IfExcept(loc)
        \/ /\ out = "ok"
           /\ loc' = [loc EXCEPT !.ii = 1]
           /\ mpc' = "if_config"
           /\ UNCHANGED <<fmc, fmcq, fmcbar>>
    /\ UNCHANGED <<labVars, printed>>

\* a selection that takes the zone created last
ZoneAtLast(zones, zone_index) == zones[Len(zones)]

\* zones_id_list[zone_index]: Python counts from 0
ZoneAt(zones, zone_index) == zones[zone_index + 1]

\* for int_id in interfaces: configure_interface(...) when the name is a key
\* of fmc_int_settings: GET, zones_id_list[zone_index], PUT.  "exc" is the GET
\* or the PUT raising (raise_for_status() follows both): the handler of the
\* block runs and the loop is left
IfConfigure ==
    /\ mpc = "if_config"
    /\ LET i    == loc.ii
           last == i = Cardinality(Interfaces)
           zx   == IntSettings[i].zone_index
       IN IF i \notin DOMAIN IntSettings
          THEN /\ loc' = [loc EXCEPT !.ii = IF last THEN 0 ELSE @ + 1]
               /\ mpc' = IF last THEN "route_host" ELSE mpc
               /\ UNCHANGED <<fmc, fmcq, fmcbar>>
          ELSE \E out \in Checked(IF zx < Len(loc.zones_id_list)
                                  THEN {"ok"} ELSE {"index_error"}) :
               \/ /\ out = "exc"
                  /\ IfExcept(loc)
               \/ /\ out = "index_error"
                  /\ IF FmcCatches("IndexError")
                     THEN IfExcept(loc)
                     ELSE Escape /\ UNCHANGED loc
               \/ /\ out = "ok"
                  /\ fmc' = [fmc EXCEPT !.puts = Append(@,
                                <<loc.primary_status_id[1], i, ZoneAt(loc.zones_id_list, zx)>>)]
                  /\ fmcq' = FPut(FPut(fmcq, "fmc_interface_queue", <<"zone_assigned", i>>),
                                  "fmc_interface_queue", <<"ip_assigned", i>>)
                  /\ fmcbar' = FUpdate(fmcbar, "fmc_interface")
                  /\ loc' = [loc EXCEPT !.ii = IF last THEN 0 ELSE @ + 1]
                  /\ mpc' = IF last THEN "route_host" ELSE mpc
    /\ UNCHANGED <<labVars, printed>>

\* the handler of the route block puts to fmc_interface_queue; the bars are
\* closed next
RouteExcept ==
    /\ fmcq' = FPut(fmcq, "fmc_interface_queue", <<"error">>)
    /\ mpc' = "fmc_close"
    /\ UNCHANGED <<fmc, fmcbar>>

\* the host object of the gateway is posted; a refusal is only logged
RouteHost ==
    /\ mpc = "route_host"
    /\ \E out \in Outcomes((IF loc.token THEN {"created"} ELSE {}) \cup {"refused"},
                           {"exc"}) :
        \/ /\ out = "exc"
           /\ loc' = [loc EXCEPT !.phases = @ \cup {"route"}]
           /\ RouteExcept
        \/ /\ out = "refused"
           /\ loc' = [loc EXCEPT !.phases = @ \cup {"route"}]
           /\ mpc' = "route_net"
           /\ UNCHANGED <<fmc, fmcq, fmcbar>>
        \/ /\ out = "created"
           /\ loc' = [loc EXCEPT !.phases = @ \cup {"route"}, !.gw_host_id = <<"gw">>]
           /\ fmc' = [fmc EXCEPT !.hosts = @ + 1]
           /\ fmcbar' = FUpdate(fmcbar, "fmc_host_obj")
           /\ fmcq' = FPut(fmcq, "fmc_object_host_queue", <<"host_created">>)
           /\ mpc' = "route_net"
    /\ UNCHANGED <<labVars, printed>>

\* the network objects are listed for the one called any-ipv4; when there is
\* none any_ipv4_id stays unassigned and the next statement reads it
RouteNet ==
    /\ mpc = "route_net"
    /\ \E out \in Checked({"listed", "not_listed"}) :
        \/ /\ out = "exc"
           /\ RouteExcept
           /\ UNCHANGED loc
        \/ /\ out = "not_listed"
           /\ IF FmcCatches("UnboundLocalError") THEN RouteExcept ELSE Escape
           /\ UNCHANGED loc
        \/ /\ out = "listed"
           /\ loc' = [loc EXCEPT !.any_ipv4_id = <<"any">>]
           /\ mpc' = "route_post"
           /\ UNCHANGED <<fmc, fmcq, fmcbar>>
    /\ UNCHANGED <<labVars, printed>>

\* the static route is posted to the routing URL of primary_status_id
RoutePost ==
    /\ mpc = "route_post"
    /\ IF loc.primary_status_id = Unbound
       THEN IF FmcCatches("UnboundLocalError") THEN RouteExcept ELSE Escape
       ELSE \E out \in Checked({"created"}) :
            \/ /\ out = "exc"
               /\ RouteExcept
            \/ /\ out = "created"
               /\ fmc' = [fmc EXCEPT !.routes =
                            Append(@, <<loc.primary_status_id[1], loc.gw_host_id>>)]
               /\ fmcbar' = FUpdate(fmcbar, "fmc_route")
               /\ fmcq' = FPut(fmcq, "fmc_route_queue", <<"route_created">>)
               /\ mpc' = "fmc_close"
    /\ UNCHANGED <<loc, labVars, printed>>

\* the bars are closed and fmc_register returns
FmcClose ==
    /\ mpc = "fmc_close"
    /\ mpc' = "fmc_done"
    /\ UNCHANGED <<fmcVars, labVars, printed>>

\* main: the result section prints the queues in this order
PrintOrder ==
    <<"createnode_queue", "starnode_queue", "connectnode_queue", "configure_queue",
      "closeconnection_queue", "fmc_register_queue", "fmc_ha_queue",
      "fmc_sec_zones_queue", "fmc_interface_queue", "fmc_object_host_queue",
      "fmc_route_queue">>

\* the lines of the queue called name
LinesOf(name) == IF name \in LabQueues THEN queues[name] ELSE fmcq[name]

\* main: fmc_register(...) has returned: for each queue in turn, "while not
\* q.empty(): print(q.get())".  No other thread is running.
MainPrint ==
    /\ mpc = "fmc_done"
    /\ printed' = [i \in 1 .. Len(PrintOrder) |-> <<PrintOrder[i], LinesOf(PrintOrder[i])>>]
    /\ queues' = [q \in LabQueues |-> [w \in Devices |-> <<>>]]
    /\ fmcq' = [q \in FmcQueues |-> <<>>]
    /\ mpc' = "main_done"
    /\ UNCHANGED <<argc, started, joined, wk, payload, lab, wireFaults, progress,
                   loc, fmc, fmcbar>>

----------------------------------------------------------------------------
(* fmc_register on its own, called after a run of the lab phase            *)

\* how the thread of a device ended
LabOutcomes == {"configured", "create_failed"}

\* the final record of a thread
WorkerFinal(w, o) ==
    [WorkerInit EXCEPT
        !.pc = "done",
        !.device_id = IF o = "configured" THEN CreateMaxRetries * w + 1 ELSE NoId,
        !.posts = IF o = "configured" THEN 0 ELSE CreateMaxRetries,
        !.sleeps = IF o = "configured" THEN 0 ELSE CreateMaxRetries - 1,
        !.exc = IF o = "configured" THEN "none" ELSE "caught"]

\* what the lab controller and the console of a device were asked to do
LabFinal(w, o) ==
    IF o = "configured"
    THEN [nodes |-> {CreateMaxRetries * w + 1}, started |-> {CreateMaxRetries * w + 1},
          polled |-> {CreateMaxRetries * w + 1}, running |-> TRUE,
          portOf |-> {CreateMaxRetries * w + 1},
          console |-> "closed", disconnects |-> 1, files |-> FALSE, removed |-> TRUE]
    ELSE LabInit

\* what the thread of a device has put on the queue called q
QueueFinal(q, o) ==
    IF o = "configured"
    THEN CASE q = "createnode_queue"      -> <<"created", "mgmt", "ha">>
           [] q = "starnode_queue"        -> <<"starting", "started">>
           [] q = "connectnode_queue"     -> <<"connected", "waiting">>
           [] q = "configure_queue"       -> <<"applying">>
           [] q = "closeconnection_queue" -> <<"closed">>
    ELSE CASE q = "createnode_queue"      -> <<"create_failed">>
           [] q = "closeconnection_queue" -> <<"worker_error">>
           [] OTHER                       -> <<>>

\* the state run_threads returns in when the threads ended as o says: every
\* HTTP call of a configured device succeeded at once, every creation request
\* of the other devices was refused
LabEnded(o) ==
    /\ argc = RunThreadsArity
    /\ started = NumDevices
    /\ joined = NumDevices
    /\ wk = [w \in Devices |-> WorkerFinal(w, o[w])]
    /\ payload = [uuid |-> <<>>, top |-> "30"]
    /\ lab = [w \in Devices |-> LabFinal(w, o[w])]
    /\ wireFaults = 0
    /\ queues = [q \in LabQueues |-> [w \in Devices |-> QueueFinal(q, o[w])]]
    /\ progress = [b \in Bars |-> Cardinality({w \in Devices : o[w] = "configured"})]

\* the runs of the lab phase fmc_register is followed after: every device
\* configured, and device 0 not created
LabRuns == {[w \in Devices |-> "configured"],
            [w \in Devices |-> IF w = 0 THEN "create_failed" ELSE "configured"]}

\* fmc_register after the run in which every device was configured
InitFmc ==
    /\ mpc = "returned"
    /\ LabEnded([w \in Devices |-> "configured"])
    /\ loc = LocInit
    /\ fmc = FmcInit
    /\ fmcq = [q \in FmcQueues |-> <<>>]
    /\ fmcbar = [b \in FmcBars |-> 0]
    /\ printed = <<>>

NextFmc ==
    \/ MainCallFmcRegister
    \/ FmcToken
    \/ FmcPolicy
    \/ FmcSubmit
    \/ FmcVisibility
    \/ FmcHealthList
    \/ FmcHealthDetail
    \/ FmcHealthCheck
    \/ FmcRegEnd
    \/ HaList
    \/ HaPost
    \/ HaIdPoll
    \/ HaStatusPoll
    \/ HaStatusTest
    \/ ZonePost
    \/ IfHaCheck
    \/ IfList
    \/ IfConfigure
    \/ RouteHost
    \/ RouteNet
    \/ RoutePost
    \/ FmcClose
    \/ MainPrint

SpecFmc == InitFmc /\ [][NextFmc]_vars

\* the registration block of fmc_register, up to the statement that leaves it
NextRegistration ==
    \/ MainCallFmcRegister
    \/ FmcToken
    \/ FmcPolicy
    \/ FmcSubmit
    \/ FmcVisibility
    \/ FmcHealthList
    \/ FmcHealthDetail
    \/ FmcHealthCheck
    \/ FmcRegEnd

\* fmc_register runs in the calling thread, which is never suspended for good:
\* a statement that can be executed is executed
SpecRegistration == InitFmc /\ [][NextRegistration]_vars /\ WF_vars(NextRegistration)

\* fmc_register after a run in which the creation of a device failed
InitFmcAfterFailure ==
    /\ mpc = "returned"
    /\ \E o \in LabRuns : o[0] = "create_failed" /\ LabEnded(o)
    /\ loc = LocInit
    /\ fmc = FmcInit
    /\ fmcq = [q \in FmcQueues |-> <<>>]
    /\ fmcbar = [b \in FmcBars |-> 0]
    /\ printed = <<>>

SpecFmcAfterFailure == InitFmcAfterFailure /\ [][NextFmc]_vars

----------------------------------------------------------------------------
(* Properties of the lab phase                                             *)

\* the thread of device w has been started and has not ended
Running(w) == wk[w].pc \notin {"unstarted", "done"}

\* the calling thread is past "return" of run_threads
AfterRunThreads ==
    mpc \notin {"main", "main_except", "start_threads", "join", "close_bars"}

\* the calling thread is inside fmc_register
InFmcRegister == AfterRunThreads /\ mpc # "returned"

\* the last message thread w put on the queue called name is tag
LastPut(name, w, tag) ==
    /\ Len(queues[name][w]) > 0
    /\ queues[name][w][Len(queues[name][w])] = tag

\* thread w put tag on the queue called name
HasPut(name, w, tag) == \E i \in 1 .. Len(queues[name][w]) : queues[name][w][i] = tag

\* C1: run_threads returns only after every one of the N threads it started
\* has terminated, normally or through a caught failure, so fmc_register is
\* never entered while a thread is still running.
C1_ReturnAfterAllWorkers ==
    AfterRunThreads =>
        /\ started = NumDevices
        /\ joined = NumDevices
        /\ \A w \in Devices : wk[w].pc = "done"

\* fmc_register has been entered after the thread of device 0 ended in its
\* handler and the other ones ran to their last step
C1_Witness ==
    /\ InFmcRegister
    /\ \E o \in LabRuns : o[0] = "create_failed" /\ LabEnded(o)

\* C2: an exception raised into threading_process by any step of a thread is
\* caught there and reported: the thread ends, the caller of run_threads
\* sees no exception, and every other running thread can still take its
\* next step.
C2_WorkerFailureContained ==
    \A w \in Devices :
        wk[w].exc # "none" =>
            /\ wk[w].exc = "caught"
            /\ wk[w].pc = "done"
            /\ LastPut("closeconnection_queue", w, "worker_error")
            /\ mpc # "main_except"
            /\ \A v \in Devices \ {w} : Running(v) => ENABLED Worker(v)

\* one thread failed in create_nodes with a ValueError, the other one ran every
\* step to the end, and run_threads has returned
C2_Witness ==
    /\ mpc = "returned"
    /\ \E w, v \in Devices :
          /\ wk[w].exc = "caught" /\ HasPut("createnode_queue", w, "create_failed")
          /\ wk[v].exc = "none" /\ LastPut("closeconnection_queue", v, "closed")
          /\ lab[v].console = "closed"

\* C3: the uuid in the body of the creation request a thread posted is the
\* one that thread generated for the attempt, and no two threads post the
\* same uuid.
C3_RequestCarriesOwnUuid ==
    /\ \A w \in Devices :
          wk[w].sent # <<>> => wk[w].sent[1] = Uuid4(w, wk[w].attempt)
    /\ \A w, v \in Devices :
          (w # v /\ wk[w].sent # <<>> /\ wk[v].sent # <<>>)
              => wk[w].sent[1] # wk[v].sent[1]

\* C5: a device whose start call was rejected, or whose run-state poll ran out,
\* gets no console-address lookup and no console session.
C5_StartFailureExcludes ==
    \A w \in Devices :
        (HasPut("starnode_queue", w, "start_rejected")
            \/ HasPut("starnode_queue", w, "start_timeout"))
        => /\ lab[w].portOf = {}
           /\ lab[w].console = "none"

\* C6: once telnet_conn has returned from a console session it opened, a
\* disconnect and the removal of the screen files have been attempted.
C6_TeardownAlwaysAttempted ==
    \A w \in Devices :
        (wk[w].pc \in {"cfg_progress", "close_progress"} /\ lab[w].console # "none")
        => /\ lab[w].disconnects > 0
           /\ lab[w].removed
\* C4: a device whose creation failed on all three attempts gets no start
\* call, no console session and no registration submission.
C4_CreateFailureExcludes ==
    \A w \in Devices :
        HasPut("createnode_queue", w, "create_failed")
        => /\ lab[w].started = {}
           /\ lab[w].console = "none"
           /\ DevicePayload[w + 1] \notin Range(fmc.submitted)

----------------------------------------------------------------------------
(* Properties of fmc_register                                              *)

\* the names fmc_register submits
SubmittedNames == Range(DevicePayload)

\* the queue called name holds an error line of a handler
HasError(name) == <<"error">> \in Range(fmcq[name])

\* C7: when the device list of a health poll lacks a submitted name, the
\* health loop ends at that poll with a failure line on the registration
\* queue instead of polling again.
C7_DisappearanceEndsHealthLoop ==
    [][(mpc = "fmc_health_check" /\ SubmittedNames \ Range(loc.devices) # {})
        => /\ mpc' = "fmc_reg_end"
           /\ fmcq'.fmc_register_queue
                = Append(fmcq.fmc_register_queue, <<"disappeared">>)]_vars

\* C8: the ready set grows only by the device whose detail was just observed,
\* and only on health green, yellow or recovered with deployment DEPLOYED;
\* such an observation always puts the device in the ready set; and the loop
\* test ends the health loop, with no failure line, exactly when every
\* submitted name is in the ready set.
C8_HealthLoopExit ==
    [][/\ loc'.ready_devices # loc.ready_devices
            => /\ mpc = "fmc_health_detail"
               /\ loc'.ready_devices = loc.ready_devices \cup {loc.devices[loc.di]}
               /\ loc.devices[loc.di] \in SubmittedNames
               /\ loc'.health \in {"green", "yellow", "recovered"}
               /\ loc'.deploy = "DEPLOYED"
       /\ (mpc = "fmc_health_detail" /\ mpc' # "ha_list"
             /\ loc'.health \in {"green", "yellow", "recovered"}
             /\ loc'.deploy = "DEPLOYED")
            => loc.devices[loc.di] \in loc'.ready_devices
       /\ mpc = "fmc_health_check"
            => ((mpc' = "fmc_reg_end" /\ fmcq' = fmcq)
                  <=> loc.ready_devices = SubmittedNames)]_vars

\* the health loop has ended with every submitted device ready, after more
\* than one poll
C8_Witness ==
    /\ mpc = "fmc_reg_end"
    /\ loc.ready_devices = SubmittedNames
    /\ loc.waited > 0

\* fmc_register has been entered and is over
FmcEnded == mpc \in {"fmc_done", "main_except"} /\ loc.phases # {}

\* C9: once fmc_register is over after a handler of the registration, HA,
\* zones or interface block caught a failure, no exception has reached the
\* caller and every later block, through the route block, has been entered.
C9_LaterPhasesAttempted ==
    (/\ FmcEnded
     /\ \/ HasError("fmc_register_queue")
        \/ HasError("fmc_ha_queue")
        \/ HasError("fmc_sec_zones_queue")
        \/ HasError("fmc_interface_queue"))
    => /\ mpc = "fmc_done"
       /\ {"ha", "zones", "interfaces", "route"} \subseteq loc.phases

\* C10: the HA pair is posted only with every submitted device in the ready
\* set, and never after the handler of the registration block ran.
C10_HaOnlyWhenAllReady ==
    fmc.ha_posts # <<>>
    => /\ loc.ready_devices = SubmittedNames
       /\ ~HasError("fmc_register_queue")
\* the entries of sec_zones_payload submitted so far, in order
ZonePostEntries == [i \in 1 .. Len(fmc.zone_posts) |-> fmc.zone_posts[i][1]]

\* the security-zone block has been entered and left
ZonesEnded == "zones" \in loc.phases /\ mpc # "zones"

\* C11: the zones are submitted one after another in configuration order,
\* and a failed submission does not keep the remaining zones from being
\* submitted: once the zone block is left every configured zone was submitted
C11_ZonesPerZone ==
    /\ \A i \in 1 .. Len(fmc.zone_posts) : ZonePostEntries[i] = i
    /\ ZonesEnded => ZonePostEntries = [i \in 1 .. NumZones |-> i]

\* C12: the interface PUT of an interface configured with zone_index = i
\* carries as securityZone.id the identifier the i-th zone submission of this
\* run returned (counted from 0, in submission order)
C12_InterfaceZoneByIndex ==
    \A k \in 1 .. Len(fmc.puts) :
        LET zx == IntSettings[fmc.puts[k][2]].zone_index
        IN /\ zx + 1 <= Len(fmc.zone_posts)
           /\ fmc.zone_posts[zx + 1][1] = zx + 1
           /\ fmc.zone_posts[zx + 1][2] # "exc"
           /\ fmc.puts[k][3] = fmc.zone_posts[zx + 1][3]

\* three zones were created and the interface with zone_index = 1 was put
\* with the identifier of the second one
C12_Witness ==
    /\ fmc.zones = <<1, 2, 3>>
    /\ \E k \in 1 .. Len(fmc.puts) :
        /\ IntSettings[fmc.puts[k][2]].zone_index = 1
        /\ fmc.puts[k][3] = ZoneId(2)

\* the pair list or the pair status is being polled
HaPolling == mpc \in {"ha_id_poll", "ha_status_poll", "ha_status_test"}

\* this step puts the success line of the HA block
HaSuccessObserved ==
    /\ mpc = "ha_status_test"
    /\ loc.primary_status = "active"
    /\ loc.secondary_status = "standby"
    /\ Len(fmcq'.fmc_ha_queue) = Len(fmcq.fmc_ha_queue) + 1
    /\ fmcq'.fmc_ha_queue[Len(fmcq'.fmc_ha_queue)] = <<"ha_added">>

\* C13: the HA-pair creation call is issued once, however often the pair
\* list and the pair status are polled, and the status poll that sees primary
\* active and secondary standby ends the wait at once: no creation call, no
\* sleep and no poll follows it
C13_HaCreatedOnce ==
    /\ [](Len(fmc.ha_posts) <= 1 /\ (HaPolling => Len(fmc.ha_posts) = 1))
    /\ [][HaSuccessObserved =>
            /\ mpc' = "zones"
            /\ fmc'.ha_posts = fmc.ha_posts
            /\ fmcbar'.fmc_ha = fmcbar.fmc_ha + 1]_vars

\* the pair status is polled for the third time or later, after one creation
C13_Witness ==
    /\ mpc = "ha_status_poll"
    /\ loc.wait_ha >= 2 * PollInterval
    /\ Len(fmc.ha_posts) = 1

\* the last status poll saw primary active and secondary standby
HaUp == loc.primary_status = "active" /\ loc.secondary_status = "standby"

\* the last status poll saw a failed unit
HaFailed == loc.primary_status = "failed" \/ loc.secondary_status = "failed"

\* the last status poll saw neither, and the ceiling has elapsed
HaCeiling == ~HaUp /\ ~HaFailed /\ loc.wait_ha > MaxHaWait

\* this step records the success of the HA block
HaSuccessRecorded ==
    /\ fmcq'.fmc_ha_queue = Append(fmcq.fmc_ha_queue, <<"ha_added">>)
    /\ fmcbar'.fmc_ha = fmcbar.fmc_ha + 1

PcOrder ==
    <<"unstarted", "cr_set", "cr_post", "cr_wire_mgmt", "cr_wire_ha", "cr_progress",
      "st_begin", "st_call", "st_poll", "st_progress", "port", "conn_progress",
      "tn_connect", "console", "tn_teardown", "cfg_progress", "close_progress", "done">>

\* the place of each position in that order
RankOf ==
    [pc \in {PcOrder[i] : i \in 1 .. Len(PcOrder)} |->
        CHOOSE i \in 1 .. Len(PcOrder) : PcOrder[i] = pc]

\* the position at which each bar is updated
UpdateAt ==
    [create |-> "cr_progress", start |-> "st_progress", connect |-> "conn_progress",
     configure |-> "cfg_progress", close |-> "close_progress"]

\* C15: each of the five progress counters is at most the number of devices
\* in every state, and a thread adds one to a counter at most once: a counter
\* changes only by one, in the step in which a thread leaves the update of
\* that counter, and a thread never comes back to an update it has reached
C15_CountersBounded ==
    /\ [](\A b \in Bars : progress[b] <= NumDevices)
    /\ [][\A b \in Bars :
            /\ progress'[b] # progress[b] =>
                    /\ progress'[b] = progress[b] + 1
                    /\ \E w \in Devices :
                        /\ wk[w].pc = UpdateAt[b]
                        /\ RankOf[wk'[w].pc] > RankOf[wk[w].pc]
            /\ \A w \in Devices :
                    RankOf[wk[w].pc] >= RankOf[UpdateAt[b]] =>
                        \/ wk'[w].pc = wk[w].pc
                        \/ RankOf[wk'[w].pc] > RankOf[UpdateAt[b]]]_vars

\* every thread has run to its end and every counter stands at the number
\* of devices
C15_Witness ==
    /\ \A w \in Devices : wk[w].pc = "done" /\ wk[w].exc = "none"
    /\ \A b \in Bars : progress[b] = NumDevices

\* the identifier device w has from the lab controller: device_id of
\* create_nodes while it runs, of threading_process once it has returned
LabId(w) == IF wk[w].device_id # NoId THEN wk[w].device_id ELSE wk[w].node_id

\* what the registration phase matches device w by: device["name"] of its
\* payload entry, compared with the names the management controller lists
RegistrationKey(w) == DevicePayload[w + 1]

\* C16: the identifier the lab controller gives a device at creation is not
\* replaced by another one during the run, it is the value of every start
\* call, run-state poll and console-address lookup of the device, and it is
\* what the registration phase matches the device by
C16_IdentifierStable ==
    /\ [][\A w \in Devices :
            (LabId(w) # NoId /\ LabId(w)' # NoId) => LabId(w)' = LabId(w)]_vars
    /\ [](\A w \in Devices :
            /\ lab[w].started \cup lab[w].polled \cup lab[w].portOf
                    \subseteq {wk[w].device_id} \ {NoId}
            /\ LabId(w) # NoId => RegistrationKey(w) = LabId(w))

\* what is typed when the state of each name is left
SendsOf ==
    [name \in {ConsoleSteps[k].name : k \in 1 .. Len(ConsoleSteps)} |->
        ConsoleSteps[CHOOSE k \in 1 .. Len(ConsoleSteps) :
                        ConsoleSteps[k].name = name].sends]

\* C17: the console sequencer goes through its states in one order: login,
\* password, EULA, EULA confirmation, new password, password changed, IPv4,
\* IPv6, configuration commands, local management, firewall mode, command
\* prompt with the manager registration, and then the teardown; no state is
\* left out, entered again or taken out of order, and the manager
\* registration is typed at most once per device
C17_SequencerOrder ==
    LET Order == <<"login", "password", "eula", "eula_agree", "new_password",
                   "password_changed", "ipv4", "ipv6", "commands", "manage_locally",
                   "firewall_mode", "command_prompt">>
    IN \A w \in Devices :
        /\ Len(wk[w].typed) <= Len(Order)
        /\ \A i \in 1 .. Len(wk[w].typed) : wk[w].typed[i][1] = Order[i]
        /\ wk[w].pc = "tn_teardown" => Len(wk[w].typed) = Len(Order)
        /\ \A i, j \in 1 .. Len(wk[w].typed) :
                (/\ SendsOf[wk[w].typed[i][1]] = "configure manager add"
                 /\ SendsOf[wk[w].typed[j][1]] = "configure manager add") => i = j
        /\ wk[w].pc \notin {"console", "tn_teardown"} => wk[w].typed = <<>>

\* a session is at its teardown after the manager registration was typed
C17_Witness ==
    \E w \in Devices :
        /\ wk[w].pc = "tn_teardown"
        /\ Len(wk[w].typed) = 12
        /\ wk[w].typed[12][1] = "command_prompt"

\* C18: whatever the sequencer types in a state, it types after a screen
\* capture taken in that state showed the prompt of the state
C18_ResponsesAfterMatch ==
    \A w \in Devices : \A i \in 1 .. Len(wk[w].typed) :
        SendsOf[wk[w].typed[i][1]] # "" => wk[w].typed[i][2]

\* the token exchange was answered and the answer carried no access token
NoTokenReply ==
    /\ fmc.tokens # <<>>
    /\ fmc.tokens[Len(fmc.tokens)] \in {"no_token", "denied"}

\* C19: when the answer to the token exchange carries no access token, no
\* policy lookup, device submission, HA, zone, interface or route call is
\* issued afterwards
C19_NoTokenFatal ==
    NoTokenReply =>
        /\ loc.phases \subseteq {"registration"}
        /\ fmc.policies = <<>>
        /\ fmc.submitted = <<>>
        /\ fmc.ha_posts = <<>>
        /\ fmc.zone_posts = <<>>
        /\ fmc.puts = <<>>
        /\ fmc.hosts = 0
        /\ fmc.routes = <<>>

\* the last policy lookup listed no policy called Initial_policy
PolicyMissed ==
    /\ fmc.policies # <<>>
    /\ "Initial_policy" \notin fmc.policies[Len(fmc.policies)]

\* C20: when the policy lookup returns no policy with exactly the required
\* name the phase is over: the lookup is made once and no device payload is
\* submitted (nor anything after it)
C20_PolicyMissingAborts ==
    PolicyMissed =>
        /\ mpc \in {"fmc_done", "main_done"}
        /\ Len(fmc.policies) = 1
        /\ fmc.submitted = <<>>
        /\ loc.phases = {"registration"}
        /\ fmc.ha_posts = <<>>

\* the lookup listed a policy whose name differs from the required one in
\* case only, and fmc_register has returned
C20_Witness ==
    /\ mpc = "fmc_done"
    /\ fmc.policies = <<{"initial_policy"}>>

\* the messages the submission loop has put: <<"registered", name>> after a
\* 202, <<"submit_failed", name>> after another status
SubmitPuts ==
    SelectSeq(fmcq.fmc_register_queue,
              LAMBDA m : m[1] \in {"registered", "submit_failed"})

\* the registration block is past the submission loop
AfterSubmitLoop ==
    mpc \in {"fmc_vis", "fmc_health_list", "fmc_health_detail", "fmc_health_check",
             "fmc_reg_end"}

\* C21: the device payloads are submitted in payload order, each one once,
\* whatever the status codes of the earlier replies were: a reply other
\* than 202 puts a failure message naming that device and the next payload
\* is submitted; the loop is left when every payload has been submitted
C21_EverySubmittedOnce ==
    /\ Len(fmc.submitted) <= Len(DevicePayload)
    /\ \A i \in 1 .. Len(fmc.submitted) : fmc.submitted[i] = DevicePayload[i]
    /\ Len(fmc.sub_replies) = Len(fmc.submitted)
    /\ Len(SubmitPuts) = Len(fmc.submitted)
    /\ \A i \in 1 .. Len(fmc.submitted) :
            SubmitPuts[i] = <<IF fmc.sub_replies[i] = "accepted"
                              THEN "registered" ELSE "submit_failed",
                              DevicePayload[i]>>
    /\ AfterSubmitLoop => fmc.submitted = DevicePayload

\* the first submission was refused, the second one was made and accepted, and
\* the visibility loop is reached
C21_Witness ==
    /\ mpc = "fmc_vis"
    /\ fmc.sub_replies = <<"refused", "accepted">>
    /\ fmc.submitted = DevicePayload

\* the visibility loop has put its time-out message
VisibilityAborted ==
    \E i \in 1 .. Len(fmcq.fmc_register_queue) :
        fmcq.fmc_register_queue[i][1] = "not_appeared"

\* the health loop is being executed
HealthPolling == mpc \in {"fmc_health_list", "fmc_health_detail", "fmc_health_check"}

C23_ReadySetGrows ==
    /\ [][loc.ready_devices \subseteq loc'.ready_devices]_vars
    /\ [](fmcbar.fmc_register = Cardinality(loc.ready_devices))
    /\ [](loc.ready_devices \subseteq Range(loc.device_names))
    /\ [][(mpc = "fmc_health_check" /\ loc.ready_devices = Range(loc.device_names))
            => /\ mpc' = "fmc_reg_end"
               /\ fmcq' = fmcq
               /\ Cardinality(loc'.ready_devices) = Len(DevicePayload)]_vars
    /\ [](mpc = "fmc_health_list" => loc.ready_devices # Range(loc.device_names))
    /\ [][(mpc = "fmc_reg_end" /\ loc.ready_devices = Range(loc.device_names))
            => mpc' = "ha_list"]_vars

\* the second poll cycle has ended the health loop with both devices
\* counted; the device observed last in it was red, having been ready in
\* the first cycle
C23_Witness ==
    /\ mpc = "fmc_reg_end"
    /\ loc.waited = PoolIntervalReg
    /\ loc.health = "red"
    /\ loc.ready_devices = Range(loc.device_names)
    /\ fmcbar.fmc_register = NumDevices

\* main is over: its result section has run, or its handler has
MainOver == mpc \in {"main_done", "main_except"}

\* C24: every line put on a queue during the run is printed once, by the
\* result section of main, which runs after run_threads and fmc_register are
\* over and takes the queues in the order create, start, connect,
\* configure, close, registration, HA, zones, interfaces, host object, route:
\* when main is over no line is left on a queue
C24_EveryLinePrinted ==
    /\ [](MainOver =>
            /\ \A q \in LabQueues : \A w \in Devices : queues[q][w] = <<>>
            /\ \A q \in FmcQueues : fmcq[q] = <<>>)
    /\ [](printed # <<>> => mpc = "main_done" /\ \A w \in Devices : wk[w].pc = "done")
    /\ [][printed' # printed =>
            /\ printed = <<>>
            /\ Len(printed') = Len(PrintOrder)
            /\ \A i \in 1 .. Len(PrintOrder) :
                    printed'[i] = <<PrintOrder[i], LinesOf(PrintOrder[i])>>]_vars

ChannelsOf(pc) ==
    CASE pc \in {"fmc_token", "fmc_policy", "fmc_submit", "fmc_vis", "fmc_health_list",
                 "fmc_health_detail", "fmc_health_check", "fmc_reg_end"}
                -> {"fmc_register_queue"}
      [] pc \in {"ha_list", "ha_post", "ha_id_poll", "ha_status_poll", "ha_status_test"}
                -> {"fmc_ha_queue"}
      [] pc = "zones" -> {"fmc_sec_zones_queue"}
      [] pc \in {"if_ha_check", "if_list", "if_config"} -> {"fmc_interface_queue"}
      [] pc \in {"route_host", "route_net", "route_post"}
                -> {"fmc_object_host_queue", "fmc_route_queue"}
      [] OTHER  -> {}

\* C26: a step of fmc_register that puts the error line of a handler puts
\* one line, on a queue of the block the failing statement belongs to (the
\* route or host-object queue for the default-route block), changes no
\* other queue, and goes on inside fmc_register
C26_ErrorOnOwnChannel ==
    [][\A q \in FmcQueues :
            (/\ Len(fmcq'[q]) > Len(fmcq[q])
             /\ fmcq'[q][Len(fmcq'[q])] = <<"error">>)
            => /\ q \in ChannelsOf(mpc)
               /\ fmcq'[q] = Append(fmcq[q], <<"error">>)
               /\ \A r \in FmcQueues \ {q} : fmcq'[r] = fmcq[r]
               /\ mpc' # "main_except"]_vars

\* C27: a static route is posted only after the host object was posted and
\* the any-ipv4 network was looked up, and the gateway of every route posted
\* is the id the management controller returned for the host object it
\* created in this run
C27_RouteAfterHost ==
    \A i \in 1 .. Len(fmc.routes) :
        /\ "route" \in loc.phases
        /\ loc.any_ipv4_id # Unbound
        /\ fmc.hosts = 1
        /\ loc.gw_host_id # Unbound
        /\ fmc.routes[i][2] = loc.gw_host_id

\* the thread of device w is inside create_nodes
Creating(w) == wk[w].pc \in {"cr_set", "cr_post", "cr_wire_mgmt", "cr_wire_ha"}

\* the thread of device w ended because create_nodes raised
CreateRaised(w) == HasPut("createnode_queue", w, "create_failed")

\* C28: a call of create_nodes issues at most three creation requests, one
\* per attempt, and has slept once between two consecutive attempts; it
\* returns, with the id of the node of that attempt, from the first attempt
\* whose statements all complete; it raises only from its third attempt,
\* having issued three requests and slept twice (not after the last one)
C28_CreateRetries ==
    /\ [](\A w \in Devices :
            /\ wk[w].posts <= CreateMaxRetries
            /\ Creating(w) =>
                    /\ wk[w].attempt < CreateMaxRetries
                    /\ wk[w].sleeps = wk[w].attempt
                    /\ wk[w].posts = wk[w].attempt +
                            (IF wk[w].pc \in {"cr_wire_mgmt", "cr_wire_ha"} THEN 1 ELSE 0)
            /\ CreateRaised(w) =>
                    /\ wk[w].pc = "done" /\ wk[w].exc # "none"
                    /\ wk[w].posts = CreateMaxRetries
                    /\ wk[w].sleeps = CreateMaxRetries - 1
                    /\ wk[w].device_id = NoId)
    /\ [][\A w \in Devices :
            /\ (Creating(w) /\ wk'[w].pc = "done")
                    => /\ wk[w].attempt = CreateMaxRetries - 1
                       /\ CreateRaised(w)'
            /\ (Creating(w) /\ wk'[w].pc = "cr_progress")
                    => /\ wk[w].pc = "cr_wire_ha"
                       /\ wk'[w].device_id = wk[w].node_id
                       /\ wk[w].node_id \in lab[w].nodes
                       /\ ~CreateRaised(w)']_vars

\* one thread has returned from create_nodes with the node of its second
\* successful request (the wiring of the first one failed); another one has
\* ended after three failed attempts
C28_Witness ==
    \E w, v \in Devices :
        /\ wk[w].pc = "cr_progress" /\ Cardinality(lab[w].nodes) = 2
        /\ wk[w].device_id \in lab[w].nodes
        /\ CreateRaised(v) /\ wk[v].posts = CreateMaxRetries

\* C29: over the whole poll of a device start_nodes re-issues the start call
\* at most once, and a poll that re-issues it uses up one attempt of the same
\* budget of ten
C29_OneRestart ==
    /\ [](\A w \in Devices : wk[w].restarts <= 1 /\ wk[w].poll <= StartMaxRetries)
    /\ [][\A w \in Devices :
            wk'[w].restarts > wk[w].restarts => wk'[w].poll = wk[w].poll + 1]_vars

\* C30: start_nodes makes at most ten run-state polls; it returns True when
\* a poll was answered "running", and that poll is its last one; it returns
\* False when the ten polls are used up, and, without any poll, when the
\* start call is rejected
C30_StartTerminates ==
    /\ [](\A w \in Devices :
            /\ wk[w].poll <= StartMaxRetries
            /\ wk[w].ret # "none" => wk[w].pc = "st_progress"
            /\ wk[w].pc = "st_progress" =>
                    /\ wk[w].ret \in {"true", "false"}
                    /\ wk[w].ret = "true" <=> lab[w].running
            /\ wk[w].pc = "st_poll" => ~lab[w].running)
    /\ [][\A w \in Devices :
            /\ (wk[w].pc = "st_poll" /\ wk'[w].pc = "st_poll" /\ wk'[w] # wk[w])
                    => wk'[w].poll = wk[w].poll + 1
            /\ (wk[w].pc = "st_poll" /\ wk'[w].ret = "false")
                    => wk[w].poll = StartMaxRetries /\ lab' = lab
            /\ (wk[w].pc = "st_call" /\ wk'[w].pc = "st_progress")
                    => /\ wk'[w].ret = "false"
                       /\ lab'[w].polled = {} /\ lab[w].polled = {}
            /\ (~lab[w].running /\ lab'[w].running)
                    => wk[w].pc = "st_poll" /\ wk'[w].ret = "true"]_vars

\* a thread is back from start_nodes with True after a poll that saw the
\* node running, and another one with False after ten polls
C30_Witness ==
    \E w, v \in Devices :
        /\ wk[w].ret = "true" /\ wk[w].device_id \in lab[w].polled
        /\ wk[v].ret = "false" /\ LastPut("starnode_queue", v, "start_timeout")

\* the lines that report a failure
FailureTags == {"create_failed", "start_rejected", "start_timeout", "config_error",
                "disconnect_error", "worker_error"}

\* how many of the lines thread w put on the queue called q report a failure
FailuresOn(q, w) ==
    Cardinality({i \in 1 .. Len(queues[q][w]) : queues[q][w][i] \in FailureTags})

\* the queue of the phase the statement at pc belongs to
PhaseQueue(pc) ==
    CASE pc \in {"cr_set", "cr_post", "cr_wire_mgmt", "cr_wire_ha"} -> "createnode_queue"
      [] pc \in {"st_begin", "st_call", "st_poll"}                   -> "starnode_queue"
      [] pc \in {"tn_connect", "console", "tn_teardown"}             -> "configure_queue"
      [] OTHER                                                       -> "none"

\* this step is a failure of device w: a failure line of it is put, or its
\* thread ends in a handler
FailsNow(w) ==
    \/ \E q \in LabQueues : FailuresOn(q, w)' > FailuresOn(q, w)
    \/ wk[w].exc = "none" /\ wk'[w].exc # "none"

\* C31: a failure of a device in creation, start or console configuration puts
\* one failure line, on the queue of the phase the failing statement belongs
\* to, and no device has more than one failure line
C31_FailureOnPhaseChannel ==
    /\ [][\A w \in Devices :
            (FailsNow(w) /\ PhaseQueue(wk[w].pc) # "none")
            => /\ FailuresOn(PhaseQueue(wk[w].pc), w)'
                    = FailuresOn(PhaseQueue(wk[w].pc), w) + 1
               /\ \A q \in LabQueues \ {PhaseQueue(wk[w].pc)} :
                    queues'[q][w] = queues[q][w]]_vars
    /\ [](\A w \in Devices :
            FailuresOn("createnode_queue", w) + FailuresOn("starnode_queue", w)
              + FailuresOn("connectnode_queue", w) + FailuresOn("configure_queue", w)
              + FailuresOn("closeconnection_queue", w) <= 1)

\* how many of the lines thread w put on the queue called q are tag
CountOf(q, w, tag) ==
    Cardinality({i \in 1 .. Len(queues[q][w]) : queues[q][w][i] = tag})

\* the sequence s begins with the sequence p
IsPrefix(p, s) == Len(p) <= Len(s) /\ SubSeq(s, 1, Len(p)) = p

\* C32: whatever the interleaving of the threads, a step only adds lines at
\* the tail of what the acting thread has put on a queue: no line of any
\* thread is lost, put twice or moved, so the lines of a thread stay in the
\* order it put them; and each queue holds one line for each thing it reports
\* (a node created, a start call answered, a console opened, a teardown)
C32_NoMessageLost ==
    /\ [][\A q \in LabQueues : \A w \in Devices :
            /\ IsPrefix(queues[q][w], queues'[q][w])
            /\ queues'[q][w] # queues[q][w] => wk'[w] # wk[w]]_vars
    /\ [](\A w \in Devices :
            /\ CountOf("createnode_queue", w, "created") = Cardinality(lab[w].nodes)
            /\ CountOf("starnode_queue", w, "started")
                 + CountOf("starnode_queue", w, "start_rejected")
                 = (IF lab[w].started = {} THEN 0 ELSE 1)
            /\ CountOf("connectnode_queue", w, "connected")
                 = (IF lab[w].console = "none" THEN 0 ELSE 1)
            /\ CountOf("closeconnection_queue", w, "closed") = lab[w].disconnects
            /\ (wk[w].pc = "done" /\ wk[w].exc = "none")
                    => /\ IsPrefix(<<"starting">>, queues["starnode_queue"][w])
                       /\ Len(queues["createnode_queue"][w]) >= 3
                       /\ SubSeq(queues["createnode_queue"][w],
                                 Len(queues["createnode_queue"][w]) - 2,
                                 Len(queues["createnode_queue"][w]))
                            = <<"created", "mgmt", "ha">>)

\* run_threads has returned after both threads ran to their last step while
\* the other one was running, one of them having repeated its creation: each
\* queue holds the lines of both
C32_Witness ==
    /\ mpc = "returned"
    /\ \A w \in Devices :
          /\ wk[w].exc = "none"
          /\ queues["createnode_queue"][w] # <<>>
          /\ queues["connectnode_queue"][w] = <<"connected", "waiting">>
          /\ queues["closeconnection_queue"][w] = <<"closed">>
    /\ \E w \in Devices : Len(queues["createnode_queue"][w]) > 3

\* C33: with every HTTP call coming back and every awaited console prompt
\* coming in the end, run_threads returns (unless the call itself failed, with
\* the wrong number of arguments, before any thread was made), and a thread
\* runs only while run_threads has not returned: every thread that was
\* started has ended by then.  Nothing but the thread itself ends a thread,
\* and the joins wait for as long as the threads take: they are left only
\* when every thread has ended
C33_RunTerminates ==
    /\ <>(mpc \in {"returned", "main_except"})
    /\ [](mpc = "main_except" => argc # RunThreadsArity /\ started = 0)
    /\ [](\A w \in Devices : Running(w) => mpc \in {"start_threads", "join"})
    /\ [](mpc = "returned" => \A w \in Devices : wk[w].pc = "done")
    /\ [][\A w \in Devices :
            (Running(w) /\ wk'[w].pc = "done")
            => /\ mpc' = mpc
               /\ \A v \in Devices \ {w} : wk'[v] = wk[v]]_vars
    /\ [][(mpc = "join" /\ mpc' # "join")
            => /\ mpc' = "close_bars"
               /\ \A w \in Devices : wk[w].pc = "done"]_vars

\* run_threads has returned after one thread used up the ten polls of its
\* start and another one went through the whole console dialogue
C33_Witness ==
    /\ mpc = "returned"
    /\ \E v \in Devices : HasPut("starnode_queue", v, "start_timeout")
    /\ \E w \in Devices : wk[w].exc = "none" /\ lab[w].console = "closed"

\* the interface block is being executed
InInterfaces == mpc \in {"if_ha_check", "if_list", "if_config"}

\* the interfaces the loop has gone past that are keys of fmc_int_settings
PassedConfigured == {i \in DOMAIN IntSettings : i < loc.ii}

\* C34: every interface PUT goes to the unit the HA pair of this run has as
\* primary, for an interface whose name is a key of fmc_int_settings, and no
\* interface gets a second one: while the loop runs the PUTs sent are those
\* of the configured interfaces it has gone past, one each, in order.  A PUT
\* (or GET) that fails is reported by the handler of the block and ends the
\* loop: no PUT, of that interface or of another, follows it
C34_InterfacesOfPrimaryOnly ==
    /\ \A k \in 1 .. Len(fmc.puts) :
          /\ fmc.ha_posts # <<>>
          /\ fmc.puts[k][1] = fmc.ha_posts[Len(fmc.ha_posts)][1]
          /\ fmc.puts[k][2] \in DOMAIN IntSettings
          /\ \A j \in 1 .. Len(fmc.puts) : fmc.puts[j][2] = fmc.puts[k][2] => j = k
    /\ fmcbar.fmc_interface = Len(fmc.puts)
    /\ mpc = "if_config" =>
          /\ {fmc.puts[k][2] : k \in 1 .. Len(fmc.puts)} = PassedConfigured
          /\ ~HasError("fmc_interface_queue")
    /\ HasError("fmc_interface_queue") => ~InInterfaces
    /\ (mpc = "route_host" /\ Len(fmc.puts) < TotalInterfaces)
          => HasError("fmc_interface_queue")

\* the PUT of the second configured interface failed after the one of the
\* first was answered: the route block is entered with one PUT sent and the
\* error line of the interface block on the queue
C34_Witness ==
    /\ mpc = "route_host"
    /\ Len(fmc.puts) = 1
    /\ fmc.puts[1][2] = 1
    /\ fmcq.fmc_interface_queue[Len(fmcq.fmc_interface_queue)] = <<"error">>

\* C35: over all the attempts of create_nodes for a device the lab controller
\* creates at most one node: no creation request follows an attempt whose
\* creation request was answered 201, also when the wiring after it failed
C35_OneNodePerDevice ==
    \A w \in Devices :
        /\ Cardinality(lab[w].nodes) <= 1
        /\ (wk[w].pc \in {"cr_set", "cr_post"} /\ wk[w].attempt > 0) => lab[w].nodes = {}

\* the devices a run-state poll has shown running
StartedOk == {w \in Devices : lab[w].running}

\* the devices whose console dialogue ran to the teardown and reported no error
ConfiguredOk ==
    {w \in Devices : /\ HasPut("closeconnection_queue", w, "closed")
                     /\ ~HasPut("configure_queue", w, "config_error")
                     /\ ~HasPut("configure_queue", w, "disconnect_error")}

\* C36: the start, configure and close counters count the devices for which
\* the step succeeded: a device whose start returned False, or whose console
\* configuration ended in its handler, is in none of them
C36_CountersOnlyOnSuccess ==
    /\ progress["start"] <= Cardinality(StartedOk)
    /\ progress["configure"] <= Cardinality(ConfiguredOk)
    /\ progress["close"] <= Cardinality(ConfiguredOk)

\* C37: the primary and the secondary of every HA pair posted are two
\* different devices, both submitted in this run and both in the ready set
C37_HaPairFromReady ==
    \A k \in 1 .. Len(fmc.ha_posts) :
        /\ fmc.ha_posts[k][1] # fmc.ha_posts[k][2]
        /\ {fmc.ha_posts[k][1], fmc.ha_posts[k][2]}
                \subseteq (Range(fmc.submitted) \cap loc.ready_devices)


\* C38: the placement override (top = "30") is carried only by the creation
\* request of device number 1: the request a device of any other number got
\* its node by has the placement of the template, whatever the interleaving
\* of the threads and whatever the attempt.
C38_TopOnlyForDeviceOne ==
    \A w \in Devices :
        (w # 1 /\ wk[w].sent # <<>>) => wk[w].sent[2] = OrigTop


\* the submission of device d was answered with a status other than 202
Refused(d) ==
    \E i \in 1 .. Len(fmc.submitted) :
        fmc.submitted[i] = d /\ fmc.sub_replies[i] = "refused"

\* C39: the names the visibility loop and the health loop wait for are the
\* names of all the payload entries, those of refused submissions included:
\* the visibility loop is left for the health loop only by a poll that lists
\* every payload name, its time-out message names every payload name the
\* poll lacks, and the health loop ends as "all ready" only with every
\* payload name ready.  A refused device that no poll ever lists makes
\* fmc_register return at the ceiling of the visibility loop, unless a
\* request raises before.
C39_AwaitedAreAllPayloadNames ==
    /\ [](AfterSubmitLoop => loc.device_names = DevicePayload)
    /\ [][(mpc = "fmc_vis" /\ mpc' = "fmc_health_list")
            => Range(DevicePayload) \subseteq Range(loc'.devices)]_vars
    /\ [][(mpc = "fmc_vis" /\ mpc' = "fmc_done")
            => /\ loc.waited_rec > MaxWait
               /\ fmcq' = FPut(fmcq, "fmc_register_queue",
                               <<"not_appeared",
                                 Range(DevicePayload) \ Range(loc'.devices)>>)]_vars
    /\ [][(mpc = "fmc_health_check" /\ mpc' = "fmc_reg_end" /\ fmcq' = fmcq)
            => loc.ready_devices = Range(DevicePayload)]_vars
    /\ \A d \in Devices :
           (/\ <>Refused(d)
            /\ [](d \notin Range(loc.devices))
            /\ []~HasError("fmc_register_queue"))
           => <>(VisibilityAborted /\ mpc = "fmc_done")

\* the submission of device 0 was refused and that of device 1 accepted;
\* device 1 was listed and device 0 never, and the poll made past the
\* ceiling has ended fmc_register with the message naming device 0
C39_Witness ==
    /\ mpc = "fmc_done"
    /\ fmc.sub_replies = <<"refused", "accepted">>
    /\ loc.waited_rec > MaxWait
    /\ Range(loc.devices) = {1}
    /\ fmcq.fmc_register_queue[Len(fmcq.fmc_register_queue)] = <<"not_appeared", {0}>>


\* the phases that follow the HA block
AfterHaPhases == {"zones", "interfaces", "route"}

====
